---- MODULE Spec2Model ----
(***************************************************************************)
(* Data-windowing and evaluation pipeline of the music popularity tool:    *)
(* DataLoader (src/app.js), the analysis methods of GRUModel (src/gru.js)  *)
(* and the file-upload handler of MusicPopularityApp (src/app.js).         *)
(*                                                                         *)
(* JavaScript numbers are modelled as extended rationals <<n, d>>:         *)
(*   d > 0   the finite number n/d, in lowest terms                        *)
(*   <<1,0>> / <<-1,0>>   +Infinity / -Infinity                            *)
(*   <<0,0>>  NaN           <<0,-1>>  undefined                            *)
(* Finite arithmetic is exact: rounding of doubles is not modelled.        *)
(* Date keys and track ids are positive integers; 0 is the empty string.   *)
(* The order of the integers stands for the code-unit order that           *)
(* Array.prototype.sort() and localeCompare put on the date strings.       *)
(***************************************************************************)
EXTENDS Integers, Sequences, FiniteSets, TLC

VARIABLES
    dataLoader,     \* the DataLoader object: a record of its fields
    trainingData,   \* MusicPopularityApp.trainingData (NoData = null)
    notification,   \* type of the notification the last handler showed
    samples,        \* createSlidingWindows: the samples array handed to splitData
    targets,        \* createSlidingWindows: the targets array handed to splitData
    windowEnds,     \* createSlidingWindows: index i of every accepted candidate
    loads,          \* number of file uploads handled so far
    args,           \* arguments of the function under test (function-level runs)
    result,         \* its result
    isTraining,     \* MusicPopularityApp.isTraining
    model,          \* the GRUModel object: a record of its fields
    pending,        \* the trainModel call that awaits model.fit (<<>>: none does)
    handler,        \* the handler that ran last
    events,         \* what it did: notifications shown, network calls, displays
    numTensors,     \* dataset tensors created by splitData and not disposed
    loadResults,    \* history: the outcome of every file load so far, in order
    fitInvoked      \* history: model.fit has been invoked by a train request

\* the part of the state that only the handlers of MusicPopularityApp change
session == <<isTraining, model, pending, handler, events, numTensors, loadResults,
             fitInvoked>>

vars == <<dataLoader, trainingData, notification, samples, targets, windowEnds,
          loads, args, result, session>>

-----------------------------------------------------------------------------
(* Bounds of the model *)

MaxDates == 13
MaxTracks == 2
MaxLoads == 2
MaxValue == 2       \* largest integer argument of minMaxNormalize
MaxRows == 3        \* most rows handed to selectTopTracks
MaxN == 3           \* largest n handed to selectTopTracks
MaxFitDates == 7    \* most dates of a dataset that is re-fitted
MaxSamples == 2     \* most rows of a prediction matrix
MaxColumns == 6     \* most columns of a prediction matrix
MaxStale == 1       \* most keys of earlier loads left in trackMetadata

(* Program constants *)

windowSize == 7             \* createSlidingWindows: windowSize
horizon == 3                \* createSlidingWindows / createTarget: future offsets 1..3
featuresPerTrack == 5       \* createSample: features pushed per track
TopN == 10                  \* parseCSV: selectTopTracks(10)
inputWidth == 90            \* GRUModel constructor: inputShape = [7, 90]
outputUnits == 30           \* GRUModel.buildModel: units of the output layer

\* the most dates for which the window loop has no candidate
MinDates == windowSize + horizon

-----------------------------------------------------------------------------
(* JavaScript numbers *)

NaN == <<0, 0>>
PosInf == <<1, 0>>
Undefined == <<0, -1>>
Zero == <<0, 1>>
One == <<1, 1>>
Half == <<1, 2>>

Abs(n) == IF n < 0 THEN -n ELSE n
Sign(n) == IF n < 0 THEN -1 ELSE IF n > 0 THEN 1 ELSE 0

RECURSIVE GCD(_, _)
GCD(a, b) == IF b = 0 THEN a ELSE GCD(b, a % b)

Norm(n, d) ==
    IF d = 0 THEN <<Sign(n), 0>>
    ELSE LET s == IF d < 0 THEN -1 ELSE 1
             g == GCD(Abs(n), Abs(d))
         IN  <<(s * n) \div g, (s * d) \div g>>

Num(n) == <<n, 1>>

IsNaN(x) == x = NaN \/ x = Undefined
IsInf(x) == x[2] = 0 /\ x[1] # 0
IsFinite(x) == x[2] > 0

Neg(x) == IF IsNaN(x) THEN NaN ELSE <<-x[1], x[2]>>

Add(a, b) ==
    IF IsNaN(a) \/ IsNaN(b) THEN NaN
    ELSE IF IsInf(a) /\ IsInf(b) THEN (IF a = b THEN a ELSE NaN)
    ELSE IF IsInf(a) THEN a
    ELSE IF IsInf(b) THEN b
    ELSE Norm(a[1] * b[2] + b[1] * a[2], a[2] * b[2])

Sub(a, b) == Add(a, Neg(b))

Div(a, b) ==
    IF IsNaN(a) \/ IsNaN(b) THEN NaN
    ELSE IF IsInf(a) /\ IsInf(b) THEN NaN
    ELSE IF IsInf(a) THEN <<a[1] * (IF b[1] < 0 THEN -1 ELSE 1), 0>>
    ELSE IF IsInf(b) THEN Zero
    ELSE IF b[1] = 0 THEN <<Sign(a[1]), 0>>
    ELSE Norm(a[1] * b[2], a[2] * b[1])

Mul(a, b) ==
    IF IsNaN(a) \/ IsNaN(b) THEN NaN
    ELSE IF IsInf(a) \/ IsInf(b) THEN <<Sign(a[1]) * Sign(b[1]), 0>>
    ELSE Norm(a[1] * b[1], a[2] * b[2])

\* a < b ; every comparison with NaN or undefined is false
Less(a, b) ==
    IF IsNaN(a) \/ IsNaN(b) THEN FALSE
    ELSE IF IsInf(a) /\ IsInf(b) THEN a[1] < b[1]
    ELSE a[1] * b[2] < b[1] * a[2]

Greater(a, b) == Less(b, a)

\* x || y
OrElse(x, y) == IF IsNaN(x) \/ x = Zero THEN y ELSE x

\* Math.min(...values) and Math.max(...values) of a non-empty array
MathMin(s) ==
    IF \E k \in DOMAIN s : IsNaN(s[k]) THEN NaN
    ELSE s[CHOOSE k \in DOMAIN s : \A j \in DOMAIN s : ~Less(s[j], s[k])]

MathMax(s) ==
    IF \E k \in DOMAIN s : IsNaN(s[k]) THEN NaN
    ELSE s[CHOOSE k \in DOMAIN s : \A j \in DOMAIN s : ~Greater(s[j], s[k])]

-----------------------------------------------------------------------------
(* Sequences *)

\* F(v), with v evaluated once and bound to F's parameter
Let(v, F(_)) == CHOOSE r \in {F(x) : x \in {v}} : TRUE

\* the sequence s with every element evaluated
Arr(s) == s \o <<>>

Last(s) == s[Len(s)]
Slice(s, from, to) == Arr([k \in 1..(IF to < from THEN 0 ELSE to - from) |-> s[from + k]])
    \* s.slice(from, to), 0-based, from <= Len(s)
Range(s) == {s[k] : k \in DOMAIN s}
Contains(s, x) == \E k \in DOMAIN s : s[k] = x
IndexOf(s, x) == IF Contains(s, x) THEN CHOOSE k \in DOMAIN s : s[k] = x /\ \A j \in 1..(k - 1) : s[j] # x
                 ELSE 0

SetMin(S) == CHOOSE x \in S : \A y \in S : x <= y

\* Array.from(set).sort() for a set of date keys
SortedSeq(S) ==
    Arr([p \in 1..Cardinality(S) |-> CHOOSE x \in S : Cardinality({y \in S : y < x}) = p - 1])

\* the stable sort of s by the strict weak order Before: the element at index i
\* comes after every element that is before it, and after the equal ones left of it
StableSort(s, Before(_, _)) ==
    LET n == Len(s)
        rank(i) == 1 + Cardinality({j \in 1..n : Before(s[j], s[i])
                                                 \/ (j < i /\ ~Before(s[i], s[j]))})
    IN  Arr([p \in 1..n |-> s[CHOOSE i \in 1..n : rank(i) = p]])

Filter(s, Keep(_)) == SelectSeq(s, Keep)

RECURSIVE Flatten(_)
Flatten(ss) == IF ss = <<>> THEN <<>> ELSE ss[1] \o Flatten(Tail(ss))

-----------------------------------------------------------------------------
(* Input files.  A cell is a token: a decimal numeral (its value), the     *)
(* text Infinity, text that is no number, or a key (a date or a track id:  *)
(* text that does not start with a numeral; key 0 is the empty cell).      *)
(* A header cell is the set of the keywords parseCSV searches for that the *)
(* cell's text includes.                                                   *)

NumTok(v) == [k |-> "num", v |-> v, key |-> 0]
InfTok == [k |-> "inf", v |-> Zero, key |-> 0]
JunkTok == [k |-> "junk", v |-> Zero, key |-> 0]
KeyTok(n) == [k |-> "key", v |-> Zero, key |-> n]
NoCell == [k |-> "undefined", v |-> Zero, key |-> 0]    \* values[i] past the end

\* the header date,track_id,streams,danceability,energy,valence,acousticness
StdHeader == << {"date"}, {"track"}, {"stream"}, {"danceability"}, {"energy"},
                {"valence"}, {"acousticness"} >>

\* the line of the file that holds the cells of l under StdHeader
Row(l) == << KeyTok(l.date), KeyTok(l.track_id), l.streams, l.danceability, l.energy,
             l.valence, l.acousticness >>

\* headers.findIndex(h => h.toLowerCase().includes(word)), 0-based, -1: none
findIndex(headers, word) ==
    IF \E k \in DOMAIN headers : word \in headers[k]
    THEN (CHOOSE k \in DOMAIN headers :
             word \in headers[k] /\ \A j \in 1..(k - 1) : word \notin headers[j]) - 1
    ELSE -1

\* values[idx] of a parsed line
ValueAt(values, idx) ==
    IF idx >= 0 /\ idx < Len(values) THEN values[idx + 1] ELSE NoCell

\* parseFloat(cell)
parseFloat(tok) ==
    CASE tok.k = "num" -> tok.v
      [] tok.k = "inf" -> PosInf
      [] OTHER -> NaN

\* streams of variant 1: the same for every track (equal totals), period 3
StreamsA(t, d) == NumTok(Num(10 * (d % 3)))

\* streams of variant 2: differ by track; one Infinity cell, one non-numeric cell
StreamsB(t, d) ==
    IF t = 1 /\ d = 2 THEN InfTok
    ELSE IF t = 1 /\ d = 5 THEN JunkTok
    ELSE NumTok(Num(5 * ((d * d + t) % 4)))

MkLine(d, t, var) ==
    [ date         |-> IF var = 1 THEN d ELSE d + 2,
      track_id     |-> IF var = 1 THEN t ELSE t + 1,
      streams      |-> IF var = 1 THEN StreamsA(t, d) ELSE StreamsB(t, d),
      danceability |-> NumTok(Norm(t, 4)),
      energy       |-> NumTok(Norm(d % 3, 2)),
      valence      |-> NumTok(Half),
      acousticness |-> JunkTok,
      day |-> d, trk |-> t ]

\* nd dates x nt tracks; the observation of the first track on day `hole` is
\* missing (hole = 0: none is); variant 1 lists the rows by ascending date,
\* variant 2 by descending date, followed by a line with an empty track cell
FileLines(nd, nt, hole, var) ==
    LET n == nd * nt
        pos(i) == IF var = 1 THEN i ELSE n + 1 - i
        all == Arr([i \in 1..n |-> MkLine(((pos(i) - 1) \div nt) + 1, ((pos(i) - 1) % nt) + 1, var)])
        present(l) == ~(l.day = hole /\ l.trk = 1)
        extra == IF var = 1 THEN <<>> ELSE <<[MkLine(1, 1, var) EXCEPT !.track_id = 0]>>
    IN  Let(Filter(all, present) \o extra,
            LAMBDA ls : Arr([k \in DOMAIN ls |-> Row(ls[k])]))

\* a file: its header line and its data lines; empty: the text has no line
File(nd, nt, hole, var) ==
    [empty |-> FALSE, headers |-> StdHeader, lines |-> FileLines(nd, nt, hole, var)]

HeaderOnly == [empty |-> FALSE, headers |-> StdHeader, lines |-> <<>>]
EmptyFile == [empty |-> TRUE, headers |-> <<>>, lines |-> <<>>]

\* a hole inside the first window, at a target date, at the last date
HoleDays == {4, 11, 13}

\* the uploaded files: complete files of every size, files with a hole, files
\* in descending order over later dates and other tracks, a file of a header
\* only, and the empty file
Files ==
    { File(nd, nt, 0, 1) : nd \in MinDates..MaxDates, nt \in 1..MaxTracks }
    \cup { File(nd, MaxTracks, hole, 1) : nd \in {MinDates + 1, MaxDates}, hole \in HoleDays }
    \cup { File(MaxDates, nt, 0, 2) : nt \in 1..MaxTracks }
    \cup { HeaderOnly, EmptyFile }

-----------------------------------------------------------------------------
(* DataLoader *)

NoTensor == <<>>    \* null; a tensor holds at least one sample (see splitData)

\* constructor
NewDataLoader ==
    [ data |-> <<>>, tracks |-> {}, dates |-> {},
      X_train |-> NoTensor, y_train |-> NoTensor,
      X_test |-> NoTensor, y_test |-> NoTensor,
      trackMetadata |-> <<>>,          \* Map, as the sequence of its entries in key order
      normalizationParams |-> <<>>,    \* Map, as the sequence of [id, params] entries
      selectedTracks |-> <<>> ]

Features == <<"streams", "danceability", "energy", "streams_momentum", "streams_ma3">>

\* the column indices parseCSV locates in the header (lines 833-839)
Indices(headers) ==
    [ date         |-> findIndex(headers, "date"),
      track        |-> findIndex(headers, "track"),
      streams      |-> findIndex(headers, "stream"),
      danceability |-> findIndex(headers, "danceability"),
      energy       |-> findIndex(headers, "energy"),
      valence      |-> findIndex(headers, "valence"),
      acousticness |-> findIndex(headers, "acousticness") ]

\* Math.max(dateIdx, trackIdx, streamsIdx, danceabilityIdx, energyIdx)
MaxIndex(idx) ==
    CHOOSE m \in {idx.date, idx.track, idx.streams, idx.danceability, idx.energy} :
        \A j \in {idx.date, idx.track, idx.streams, idx.danceability, idx.energy} : j <= m

\* the test of line 844 on the cells of a line
LongEnough(values, idx) == Len(values) >= MaxIndex(idx)

\* the entry parseCSV builds from the cells of a line (lines 845-853); date
\* and track_id 0: the empty string or undefined, both falsy; the derived
\* fields do not exist yet
ParseEntry(values, idx) ==
    [ date |-> ValueAt(values, idx.date).key, track_id |-> ValueAt(values, idx.track).key,
      streams      |-> OrElse(parseFloat(ValueAt(values, idx.streams)), Zero),
      danceability |-> OrElse(parseFloat(ValueAt(values, idx.danceability)), Zero),
      energy       |-> OrElse(parseFloat(ValueAt(values, idx.energy)), Zero),
      valence      |-> OrElse(parseFloat(ValueAt(values, idx.valence)), Zero),
      acousticness |-> OrElse(parseFloat(ValueAt(values, idx.acousticness)), Zero),
      streams_momentum |-> Undefined, streams_ma3 |-> Undefined,
      streams_normalized |-> Undefined, danceability_normalized |-> Undefined,
      energy_normalized |-> Undefined, streams_momentum_normalized |-> Undefined,
      streams_ma3_normalized |-> Undefined ]

\* keys of a Map filled in the order of s: the distinct elements, by first occurrence
FirstOccurrences(s) ==
    LET keep == {k \in DOMAIN s : \A j \in 1..(k - 1) : s[j] # s[k]}
        idx == SortedSeq(keep)
    IN  Arr([p \in DOMAIN idx |-> s[idx[p]]])

\* trackStreams.get(id) after the forEach of lines 915-918 over data[1..k],
\* row by row: (current || 0) + entry.streams
RECURSIVE StreamsFold(_, _, _)
StreamsFold(data, k, id) ==
    IF k = 0 THEN Undefined
    ELSE LET before == StreamsFold(data, k - 1, id)
         IN  IF data[k].track_id = id THEN Add(OrElse(before, Zero), data[k].streams)
             ELSE before

\* the sum of the streams of the rows lo..hi of the track
RECURSIVE StreamsSum(_, _, _, _)
StreamsSum(data, lo, hi, id) ==
    IF lo > hi THEN Zero
    ELSE IF lo = hi THEN (IF data[lo].track_id = id THEN data[lo].streams ELSE Zero)
    ELSE Add(StreamsSum(data, lo, (lo + hi) \div 2, id),
             StreamsSum(data, ((lo + hi) \div 2) + 1, hi, id))

\* trackStreams.get(id) after the forEach of lines 915-918 over data[1..k].
\* `current || 0` replaces a running total only when it is 0, undefined or
\* NaN, and the total of numbers is NaN only after Infinity met -Infinity:
\* in every other case the fold is the sum of the rows
TrackStreams(data, k, id) ==
    LET rows == {j \in 1..k : data[j].track_id = id}
    IN  IF rows = {} THEN Undefined
        ELSE IF /\ \E j \in rows : data[j].streams = PosInf
                /\ \E j \in rows : data[j].streams = Neg(PosInf)
             THEN StreamsFold(data, k, id)
             ELSE StreamsSum(data, 1, k, id)

\* Map.set(key, value): a new key is appended, an existing key keeps its place
MapSet(m, key, value) ==
    IF \E k \in DOMAIN m : m[k].id = key
    THEN Arr([k \in DOMAIN m |-> IF m[k].id = key THEN value ELSE m[k]])
    ELSE Append(m, value)

\* the forEach of lines 928-937: `all` is the data the totals were summed over,
\* `data` the filtered data
RECURSIVE SetMetadata(_, _, _, _, _)
SetMetadata(meta, all, data, ids, k) ==
    IF k > Len(ids) THEN meta
    ELSE LET id == ids[k]
             next == IF \E j \in DOMAIN data : data[j].track_id = id
                     THEN MapSet(meta, id, [id |-> id, name |-> id,
                                            totalStreams |-> TrackStreams(all, Len(all), id)])
                     ELSE meta
         IN  SetMetadata(next, all, data, ids, k + 1)

\* the comparator (a, b) => b[1] - a[1] puts a before b when it returns a
\* negative number; NaN counts as 0
TotalBefore(a, b) == Less(Sub(b[2], a[2]), Zero)

\* seeded fault: the totals are sorted in ascending order
SortedTracks_Ascending(data, n) ==
    LET ids == FirstOccurrences(Arr([k \in DOMAIN data |-> data[k].track_id]))
        totalAfter(a, b) == Less(Sub(a[2], b[2]), Zero)
        sorted == StableSort(Arr([k \in DOMAIN ids |->
                                    <<ids[k], TrackStreams(data, Len(data), ids[k])>>]),
                             totalAfter)
        top == Slice(sorted, 0, IF n < Len(sorted) THEN n ELSE Len(sorted))
    IN  Arr([k \in DOMAIN top |-> top[k][1]])

\* sortedTracks of lines 920-923
SortedTracks(data, n) ==
    LET ids == FirstOccurrences(Arr([k \in DOMAIN data |-> data[k].track_id]))
        sorted == StableSort(Arr([k \in DOMAIN ids |->
                                    <<ids[k], TrackStreams(data, Len(data), ids[k])>>]),
                             TotalBefore)
        top == Slice(sorted, 0, IF n < Len(sorted) THEN n ELSE Len(sorted))
    IN  Arr([k \in DOMAIN top |-> top[k][1]])

selectTopTracks(dl, n) ==
    Let(SortedTracks(dl.data, n),
        LAMBDA sortedTracks :
            LET isSelected(entry) == Contains(sortedTracks, entry.track_id)
            IN  Let(Filter(dl.data, isSelected),
                    LAMBDA filtered :
                        [dl EXCEPT !.selectedTracks = sortedTracks,
                                   !.data = filtered,
                                   !.trackMetadata =
                                        SetMetadata(dl.trackMetadata, dl.data, filtered,
                                                    sortedTracks, 1)]))

\* (a, b) => a.date.localeCompare(b.date), on indices into data
DateBefore(data, i, j) == data[i].date < data[j].date

\* seeded fault: the rows of a track are taken in file order, not sorted by date
TrackRows_Unsorted(data, trackId) ==
    LET isTrack(j) == data[j].track_id = trackId
    IN  Filter(Arr([j \in DOMAIN data |-> j]), isTrack)

\* indices of the rows of a track: filter, then sort by date (line 890)
TrackRows(data, trackId) ==
    LET isTrack(j) == data[j].track_id = trackId
        dateBefore(i, j) == DateBefore(data, i, j)
    IN  StableSort(Filter(Arr([j \in DOMAIN data |-> j]), isTrack), dateBefore)

\* the fields engineerFeatures writes on the row data[j]; rowsOf[k] are the
\* date-sorted rows of selectedTracks[k]
Engineered(data, selectedTracks, rowsOf, j) ==
    IF ~Contains(selectedTracks, data[j].track_id) THEN data[j]
    ELSE LET trackData == rowsOf[IndexOf(selectedTracks, data[j].track_id)]
             i == IndexOf(trackData, j)
         IN  [data[j] EXCEPT
                !.streams_momentum =
                    IF i = 1 THEN Zero
                    ELSE Sub(data[trackData[i]].streams, data[trackData[i - 1]].streams),
                !.streams_ma3 =
                    IF i = 1 THEN data[trackData[1]].streams
                    ELSE IF i = 2
                    THEN Div(Add(data[trackData[2]].streams, data[trackData[1]].streams), Num(2))
                    ELSE Div(Add(Add(data[trackData[i]].streams, data[trackData[i - 1]].streams),
                                 data[trackData[i - 2]].streams), Num(3))]

engineerFeatures(dl) ==
    Let(Arr([k \in DOMAIN dl.selectedTracks |-> TrackRows(dl.data, dl.selectedTracks[k])]),
        LAMBDA rowsOf :
            [dl EXCEPT !.data = Arr([j \in DOMAIN dl.data |->
                                        Engineered(dl.data, dl.selectedTracks, rowsOf, j)])])

\* parseCSV; ok = FALSE: lines[0] is undefined and line 831 throws before
\* anything is assigned
parseCSV(dl, file) ==
    IF file.empty THEN [ok |-> FALSE, dl |-> dl]
    ELSE LET idx == Indices(file.headers)
             longEnough(values) == LongEnough(values, idx)
             retained(e) == e.track_id # 0 /\ e.date # 0
             parsed == Filter(file.lines, longEnough)
             kept == Filter(Arr([k \in DOMAIN parsed |-> ParseEntry(parsed[k], idx)]), retained)
         IN  Let([dl EXCEPT !.data = kept,
                            !.tracks = @ \cup {kept[k].track_id : k \in DOMAIN kept},
                            !.dates = @ \cup {kept[k].date : k \in DOMAIN kept}],
                 LAMBDA dl1 :
                    Let(selectTopTracks(dl1, TopN),
                        LAMBDA selected : [ok |-> TRUE, dl |-> engineerFeatures(selected)]))

\* minMaxNormalize; params = NoParams: the parameter is undefined
NoParams == [min |-> Undefined, max |-> Undefined]

minMaxNormalize(value, params) ==
    IF params # NoParams /\ Greater(params.max, params.min)
    THEN Div(Sub(value, params.min), Sub(params.max, params.min))
    ELSE Half

\* floor(n * 0.8)
SplitIndex(n) == (4 * n) \div 5

\* seeded fault: the parameters are fitted on every date
TrainingDates_AllDates(dl) == dl.dates

\* the dates normalizeFeatures fits on (lines 942-944)
TrainingDates(dl) ==
    LET sortedDates == SortedSeq(dl.dates)
    IN  {sortedDates[k] : k \in 1..SplitIndex(Len(sortedDates))}

\* params of one track (lines 947-962)
FitParams(data, trainingDates, trackId) ==
    LET inFit(d) == d.track_id = trackId /\ d.date \in trainingDates
        notNaN(v) == ~IsNaN(v)
        fit(trackData, feature) ==
            Let(Filter(Arr([k \in DOMAIN trackData |-> trackData[k][feature]]), notNaN),
                LAMBDA values :
                    IF Len(values) > 0 THEN [min |-> MathMin(values), max |-> MathMax(values)]
                    ELSE [min |-> Zero, max |-> One])
    IN  Let(Filter(data, inFit),
            LAMBDA trackData : [f \in Range(Features) |-> fit(trackData, f)])

\* normalizationParams.get(trackId)
GetParams(params, trackId) ==
    IF \E k \in DOMAIN params : params[k].id = trackId
    THEN (CHOOSE e \in Range(params) : e.id = trackId).params
    ELSE [f \in Range(Features) |-> NoParams]

HasParams(params, trackId) == \E k \in DOMAIN params : params[k].id = trackId

\* the normalized fields normalizeFeatures writes on an entry (lines 967-984)
Normalized(params, entry) ==
    IF HasParams(params, entry.track_id)
    THEN LET p == GetParams(params, entry.track_id)
         IN  [entry EXCEPT
                !.streams_normalized = minMaxNormalize(entry.streams, p.streams),
                !.danceability_normalized = minMaxNormalize(entry.danceability, p.danceability),
                !.energy_normalized = minMaxNormalize(entry.energy, p.energy),
                !.streams_momentum_normalized =
                    minMaxNormalize(OrElse(entry.streams_momentum, Zero), p.streams_momentum),
                !.streams_ma3_normalized =
                    minMaxNormalize(OrElse(entry.streams_ma3, entry.streams), p.streams_ma3)]
    ELSE [entry EXCEPT
                !.streams_normalized = Half,
                !.danceability_normalized = Half,
                !.energy_normalized = Half,
                !.streams_momentum_normalized = Half,
                !.streams_ma3_normalized = Half]

\* the Map normalizeFeatures fits (lines 941-965)
FitAll(dl) ==
    Let(TrainingDates(dl),
        LAMBDA trainingDates :
            Arr([k \in DOMAIN dl.selectedTracks |->
                    [id |-> dl.selectedTracks[k],
                     params |-> FitParams(dl.data, trainingDates, dl.selectedTracks[k])]]))

normalizeFeatures(dl) ==
    Let(FitAll(dl),
        LAMBDA params :
            [dl EXCEPT !.normalizationParams = params,
                       !.data = Arr([j \in DOMAIN dl.data |-> Normalized(params, dl.data[j])])])

\* data.find(d => d.date === date && d.track_id === trackId): its index, 0 if none
FindEntry(data, date, trackId) ==
    LET found == {j \in DOMAIN data : data[j].date = date /\ data[j].track_id = trackId}
    IN  IF found = {} THEN 0 ELSE SetMin(found)

\* seeded fault: a missing observation contributes nothing to the day row
TrackFeatures_SkipMissing(data, date, trackId) ==
    LET j == FindEntry(data, date, trackId)
    IN  IF j # 0
        THEN << OrElse(data[j].streams_normalized, Zero),
                OrElse(data[j].danceability_normalized, Zero),
                OrElse(data[j].energy_normalized, Zero),
                OrElse(data[j].streams_momentum_normalized, Zero),
                OrElse(data[j].streams_ma3_normalized, Zero) >>
        ELSE << >>

\* the five values one track contributes to a day row (lines 1026-1038)
TrackFeatures(data, date, trackId) ==
    LET j == FindEntry(data, date, trackId)
    IN  IF j # 0
        THEN << OrElse(data[j].streams_normalized, Zero),
                OrElse(data[j].danceability_normalized, Zero),
                OrElse(data[j].energy_normalized, Zero),
                OrElse(data[j].streams_momentum_normalized, Zero),
                OrElse(data[j].streams_ma3_normalized, Zero) >>
        ELSE << Zero, Zero, Zero, Zero, Zero >>

\* createSample never returns null: sample.length is windowDates.length
createSample(dl, windowDates) ==
    Arr([d \in DOMAIN windowDates |->
        Flatten(Arr([k \in DOMAIN dl.selectedTracks |->
                    TrackFeatures(dl.data, windowDates[d], dl.selectedTracks[k])]))])

\* seeded fault: a missing future observation is padded with 0
TrackTarget_Padded(dl, sortedDates, currentDateIndex, trackId) ==
    LET at(offset) ==
            IF currentDateIndex + offset \in DOMAIN sortedDates
            THEN FindEntry(dl.data, sortedDates[currentDateIndex + offset], trackId)
            ELSE 0
    IN  IF at(0) = 0 THEN <<>>
        ELSE Arr([offset \in 1..horizon |->
                    IF at(offset) # 0
                       /\ Greater(dl.data[at(offset)].streams, dl.data[at(0)].streams)
                    THEN 1 ELSE 0])

\* the three labels of one track (lines 1053-1068); <<>> when the loop returns null
TrackTarget(dl, sortedDates, currentDateIndex, trackId) ==
    Let(Arr([k \in 1..(horizon + 1) |->
                IF currentDateIndex + k - 1 \in DOMAIN sortedDates
                THEN FindEntry(dl.data, sortedDates[currentDateIndex + k - 1], trackId)
                ELSE 0]),
        LAMBDA at :     \* at[1]: the current entry, at[1 + offset]: the future entries
            IF \E k \in DOMAIN at : at[k] = 0 THEN <<>>
            ELSE Arr([offset \in 1..horizon |->
                        IF Greater(dl.data[at[1 + offset]].streams, dl.data[at[1]].streams)
                        THEN 1 ELSE 0]))

\* seeded fault: the label compares with >= instead of >
createTarget_NonStrict(dl, currentDate) ==
    LET sortedDates == SortedSeq(dl.dates)
        at(trackId, offset) ==
            FindEntry(dl.data, sortedDates[IndexOf(sortedDates, currentDate) + offset], trackId)
        label(trackId, offset) ==
            IF ~Less(dl.data[at(trackId, offset)].streams, dl.data[at(trackId, 0)].streams)
            THEN 1 ELSE 0
    IN  IF \E k \in DOMAIN dl.selectedTracks : \E offset \in 0..horizon :
              \/ IndexOf(sortedDates, currentDate) + offset \notin DOMAIN sortedDates
              \/ at(dl.selectedTracks[k], offset) = 0
        THEN [null |-> TRUE, target |-> <<>>]
        ELSE [null |-> FALSE,
              target |-> Flatten(Arr([k \in DOMAIN dl.selectedTracks |->
                            Arr([offset \in 1..horizon |-> label(dl.selectedTracks[k], offset)])]))]

\* createTarget: [null |-> TRUE] when it returns null
createTarget(dl, currentDate) ==
    Let(SortedSeq(dl.dates),
        LAMBDA sortedDates :
            Let(Arr([k \in DOMAIN dl.selectedTracks |->
                        TrackTarget(dl, sortedDates, IndexOf(sortedDates, currentDate),
                                    dl.selectedTracks[k])]),
                LAMBDA perTrack :
                    IF \E k \in DOMAIN perTrack : perTrack[k] = <<>>
                    THEN [null |-> TRUE, target |-> <<>>]
                    ELSE [null |-> FALSE, target |-> Flatten(perTrack)]))

\* tf.tensor3d / tf.tensor2d of a nested array: the shape is inferred from the
\* values, and an empty array has no rank-3 (rank-2) shape to infer: the call throws
TensorThrows(values) == values = <<>>

\* splitData: the four assignments in order, up to the first that throws;
\* created: the tensors tf has made by then.  No statement of splitData or of
\* its callers disposes the tensor a field held before
splitData(dl, smp, tgt) ==
    LET splitIndex == SplitIndex(Len(smp))
        trainX == Slice(smp, 0, splitIndex)
        trainY == Slice(tgt, 0, splitIndex)
        testX == Slice(smp, splitIndex, Len(smp))
        testY == Slice(tgt, splitIndex, Len(tgt))
    IN  IF TensorThrows(trainX) THEN [ok |-> FALSE, created |-> 0, dl |-> dl]
        ELSE IF TensorThrows(trainY)
             THEN [ok |-> FALSE, created |-> 1, dl |-> [dl EXCEPT !.X_train = trainX]]
        ELSE IF TensorThrows(testX)
             THEN [ok |-> FALSE, created |-> 2,
                   dl |-> [dl EXCEPT !.X_train = trainX, !.y_train = trainY]]
        ELSE IF TensorThrows(testY)
             THEN [ok |-> FALSE, created |-> 3,
                   dl |-> [dl EXCEPT !.X_train = trainX, !.y_train = trainY,
                                     !.X_test = testX]]
        ELSE [ok |-> TRUE, created |-> 4,
              dl |-> [dl EXCEPT !.X_train = trainX, !.y_train = trainY,
                                !.X_test = testX, !.y_test = testY]]

\* seeded fault: the loop stops one candidate early (i < length - 4)
RECURSIVE Windows_StopsEarly(_, _, _)
Windows_StopsEarly(dl, sortedDates, i) ==
    IF ~(i < Len(sortedDates) - horizon - 1) THEN <<>>
    ELSE Let(createTarget(dl, sortedDates[i + 1]),
             LAMBDA target :
                IF ~target.null /\ Len(target.target) = Len(dl.selectedTracks) * horizon
                THEN << <<i, createSample(dl, Slice(sortedDates, i - windowSize, i)),
                          target.target>> >>
                ELSE <<>>)
         \o Windows_StopsEarly(dl, sortedDates, i + 1)

\* the loop of createSlidingWindows over the candidates i (0-based), from i on:
\* the accepted <<i, sample, target>> in order
RECURSIVE Windows(_, _, _)
Windows(dl, sortedDates, i) ==
    IF ~(i < Len(sortedDates) - horizon) THEN <<>>
    ELSE Let(createTarget(dl, sortedDates[i + 1]),
             LAMBDA target :
                IF ~target.null /\ Len(target.target) = Len(dl.selectedTracks) * horizon
                THEN << <<i, createSample(dl, Slice(sortedDates, i - windowSize, i)),
                          target.target>> >>
                ELSE <<>>)
         \o Windows(dl, sortedDates, i + 1)

\* createSlidingWindows: the DataLoader after it, whether splitData returned
\* (ok), and the arrays it handed to splitData
Built(normalized, acc) ==
    Let(splitData(normalized, Arr([k \in DOMAIN acc |-> acc[k][2]]),
                              Arr([k \in DOMAIN acc |-> acc[k][3]])),
        LAMBDA split :
            [ok |-> split.ok, dl |-> split.dl, created |-> split.created,
             samples |-> Arr([k \in DOMAIN acc |-> acc[k][2]]),
             targets |-> Arr([k \in DOMAIN acc |-> acc[k][3]]),
             ends |-> Arr([k \in DOMAIN acc |-> acc[k][1]])])

createSlidingWindows(dl) ==
    Let(normalizeFeatures(dl),
        LAMBDA normalized :
            Let(Windows(normalized, SortedSeq(normalized.dates), windowSize),
                LAMBDA acc : Built(normalized, acc)))

\* hasNaN of validateData: a missing tensor counts as NaN
HasNaN(tensor) ==
    \/ tensor = NoTensor
    \/ \E s \in DOMAIN tensor : \E d \in DOMAIN tensor[s] : \E c \in DOMAIN tensor[s][d] :
          tensor[s][d][c] = NaN

validateData(dl) == ~HasNaN(dl.X_train) /\ ~HasNaN(dl.X_test)

-----------------------------------------------------------------------------
(* MusicPopularityApp *)

NoData == [present |-> FALSE, X_train |-> NoTensor, y_train |-> NoTensor,
           X_test |-> NoTensor, y_test |-> NoTensor, selectedTracks |-> <<>>]

\* getTrainingData(); its trackMetadata is the DataLoader's own Map object, so
\* trainingData.trackMetadata is dataLoader.trackMetadata at all times
getTrainingData(dl) ==
    [present |-> TRUE, X_train |-> dl.X_train, y_train |-> dl.y_train,
     X_test |-> dl.X_test, y_test |-> dl.y_test, selectedTracks |-> dl.selectedTracks]

NoWeights == 0      \* bestWeights = null; weights are named by the epoch that produced them

\* GRUModel constructor: this.model = null, inputShape = [7, 90]; history
\* keeps the val_loss list (loss, accuracy and val_accuracy grow alongside it);
\* weights are those of the network
NewGRUModel ==
    [ built |-> FALSE, inputShape |-> <<windowSize, inputWidth>>,
      bestValLoss |-> PosInf, bestWeights |-> NoWeights, history |-> <<>>, weights |-> NoWeights ]

\* notifications
LoadSuccess == "success: data loaded"
LoadError == "error: Error loading file"
TrainingWarning == "warning: Training already in progress"
TrainingSuccess == "success: training completed"
TrainingError == "error: Training error"
EvaluationError == "error: Evaluation error"
Assessment == {"success: assessment", "warning: assessment", "error: assessment"}

\* the MusicPopularityApp fields beside dataLoader and trainingData, after the
\* constructor
NewSession ==
    /\ isTraining = FALSE
    /\ model = NewGRUModel
    /\ pending = <<>>
    /\ handler = "none"
    /\ events = <<>>
    /\ numTensors = 0
    /\ loadResults = <<>>
    /\ fitInvoked = FALSE

Init ==
    /\ dataLoader = NewDataLoader
    /\ trainingData = NoData
    /\ notification = "none"
    /\ samples = <<>>
    /\ targets = <<>>
    /\ windowEnds = <<>>
    /\ loads = 0
    /\ args = <<>>
    /\ result = <<>>
    /\ NewSession

\* handleFileUpload(file) for a file the user chose
handleFileUpload(file) ==
    /\ loads < MaxLoads
    /\ loads' = loads + 1
    /\ handler' = "handleFileUpload"
    /\ \E parsed \in {parseCSV(dataLoader, file)} :
          IF ~parsed.ok
          THEN /\ notification' = "error"
               /\ events' = <<LoadError>>
               /\ loadResults' = Append(loadResults, "error")
               /\ UNCHANGED <<dataLoader, trainingData, samples, targets, windowEnds,
                              numTensors>>
          ELSE \E built \in {createSlidingWindows(parsed.dl)} :
                  /\ dataLoader' = built.dl
                  /\ samples' = built.samples
                  /\ targets' = built.targets
                  /\ windowEnds' = built.ends
                  /\ numTensors' = numTensors + built.created
                  /\ IF built.ok /\ validateData(built.dl)
                     THEN /\ trainingData' = getTrainingData(built.dl)
                          /\ notification' = "success"
                          /\ events' = <<LoadSuccess>>
                          /\ loadResults' = Append(loadResults, "success")
                     ELSE /\ notification' = "error"
                          /\ events' = <<LoadError>>
                          /\ loadResults' = Append(loadResults, "error")
                          /\ UNCHANGED trainingData
    /\ UNCHANGED <<args, result, isTraining, model, pending, fitInvoked>>

Next == \E file \in Files : handleFileUpload(file)

Spec == Init /\ [][Next]_vars

\* the shape test the network applies to the tensors handed to its fit and
\* evaluate: every sample is inputShape[0] rows of inputShape[1] values and
\* every target has one value per unit of the output layer; it throws otherwise
Accepts(m, X, y) ==
    /\ \A k \in DOMAIN X :
          /\ Len(X[k]) = m.inputShape[1]
          /\ \A d \in DOMAIN X[k] : Len(X[k][d]) = m.inputShape[2]
    /\ \A k \in DOMAIN y : Len(y[k]) = outputUnits

\* seeded fault: trainModel does not test isTraining
trainModel_Reentrant ==
    /\ handler' = "trainModel"
    /\ IF ~trainingData.present \/ trainingData.X_train = NoTensor
       THEN /\ events' = <<TrainingError>>
            /\ notification' = "error"
            /\ isTraining' = FALSE
            /\ UNCHANGED <<model, pending, fitInvoked>>
       ELSE /\ isTraining' = TRUE
            /\ model' = [model EXCEPT !.built = TRUE]
            /\ pending' = <<trainingData>>
            /\ events' = <<"model.fit">>
            /\ fitInvoked' = TRUE
            /\ UNCHANGED notification
    /\ UNCHANGED <<dataLoader, trainingData, samples, targets, windowEnds, loads, args,
                   result, numTensors, loadResults>>

\* trainModel / advancedTrainModel up to the await of model.fit (they differ
\* in the epochs and the batch size only).  GRUModel.fit builds the network
\* when there is none and hands the four tensors to it; pending keeps them
trainModel ==
    /\ handler' = "trainModel"
    /\ IF isTraining
       THEN /\ events' = <<TrainingWarning>>
            /\ notification' = "warning"
            /\ UNCHANGED <<isTraining, model, pending, fitInvoked>>
       ELSE IF ~trainingData.present \/ trainingData.X_train = NoTensor
       THEN /\ events' = <<TrainingError>>
            /\ notification' = "error"
            /\ isTraining' = FALSE
            /\ UNCHANGED <<model, pending, fitInvoked>>
       ELSE /\ isTraining' = TRUE
            /\ model' = [model EXCEPT !.built = TRUE, !.bestValLoss = PosInf,
                                      !.bestWeights = NoWeights, !.history = <<>>]
            /\ pending' = <<trainingData>>
            /\ events' = <<"model.fit">>
            /\ fitInvoked' = TRUE
            /\ UNCHANGED notification
    /\ UNCHANGED <<dataLoader, trainingData, samples, targets, windowEnds, loads, args,
                   result, numTensors, loadResults>>

\* the rest of trainModel, when model.fit has settled: the network threw on
\* the shapes of the tensors, or the epochs have run.  Handlers that the
\* browser runs while the call awaits come between the two steps
fitSettled ==
    /\ pending # <<>>
    /\ handler' = "trainModel: fit settled"
    /\ IF /\ Accepts(model, pending[1].X_train, pending[1].y_train)
          /\ Accepts(model, pending[1].X_test, pending[1].y_test)
       THEN /\ events' = <<"network.fit", TrainingSuccess>>
            /\ notification' = "success"
       ELSE /\ events' = <<"network.fit", TrainingError>>
            /\ notification' = "error"
    /\ isTraining' = FALSE
    /\ pending' = <<>>
    /\ UNCHANGED <<dataLoader, trainingData, samples, targets, windowEnds, loads, args,
                   result, model, numTensors, loadResults, fitInvoked>>

\* what evaluateModel does once model.evaluate has returned: predict, the
\* accuracy analyses, computeFeatureImportance (one more evaluate; its own
\* catch returns null), detectBreakoutTracks, the displays, and the
\* notification of assessPerformance, which depends on the accuracy
Evaluated(assessment) ==
    << "network.evaluate", "network.predict", "computeConsistentAccuracy",
       "computeTrackSpecificAccuracy", "network.evaluate", "detectBreakoutTracks",
       "display: evaluation results", "display: accuracy ranking",
       "display: hit potential", "display: day accuracy",
       "display: feature importance", "display: breakout detection", assessment >>

\* seeded fault: GRUModel.evaluate does not test this.model
NotBuilt_Unchecked(m) == FALSE

\* !this.model of GRUModel.evaluate
NotBuilt(m) == ~m.built

\* evaluateModel
evaluateModel ==
    /\ handler' = "evaluateModel"
    /\ IF ~trainingData.present \/ trainingData.X_test = NoTensor
       THEN /\ events' = <<EvaluationError>>
            /\ notification' = "error"
       ELSE IF NotBuilt(model)              \* GRUModel.evaluate: 'Model not built or loaded'
       THEN /\ events' = <<EvaluationError>>
            /\ notification' = "error"
       ELSE IF ~Accepts(model, trainingData.X_test, trainingData.y_test)
       THEN /\ events' = <<"network.evaluate", EvaluationError>>
            /\ notification' = "error"
       ELSE \E assessment \in Assessment :
               /\ events' = Evaluated(assessment)
               /\ notification' = IF assessment = "success: assessment" THEN "success"
                                  ELSE IF assessment = "warning: assessment" THEN "warning"
                                  ELSE "error"
    /\ UNCHANGED <<dataLoader, trainingData, samples, targets, windowEnds, loads, args,
                   result, isTraining, model, pending, numTensors, loadResults, fitInvoked>>

-----------------------------------------------------------------------------
(* Properties of the windows built by a load *)

SelectedCount == Len(dataLoader.selectedTracks)

\* Array.from(this.dates).sort() of the DataLoader as it is now
SortedDates == SortedSeq(dataLoader.dates)

\* the rows hold an observation of the track on the date
HasRow(date, trackId) ==
    \E j \in DOMAIN dataLoader.data :
        dataLoader.data[j].date = date /\ dataLoader.data[j].track_id = trackId

\* the first row of the track on the date
RowAt(date, trackId) ==
    dataLoader.data[SetMin({j \in DOMAIN dataLoader.data :
        dataLoader.data[j].date = date /\ dataLoader.data[j].track_id = trackId})]

\* the date of day-row r (1..7) of the window that ends before candidate i (0-based)
WindowDate(i, r) == SortedDates[i - windowSize + r]

\* the candidate date i (0-based) and the o-th date after it
TargetDate(i, o) == SortedDates[i + 1 + o]

WellShaped(X, y) ==
    /\ \A k \in DOMAIN X :
          /\ Len(X[k]) = 7
          /\ \A r \in DOMAIN X[k] : Len(X[k][r]) = 5 * SelectedCount
    /\ \A k \in DOMAIN y : Len(y[k]) = 3 * SelectedCount

\* a (sample, day-row, track) of the built samples with no observation behind it
MissingInWindow(k, r, t) ==
    ~HasRow(WindowDate(windowEnds[k], r), dataLoader.selectedTracks[t])

\* C1: every sample built by createSlidingWindows has 7 day-rows of
\* 5 x |selectedTracks| entries and every target has 3 x |selectedTracks|
\* entries, in the arrays the loop builds and, after a successful load, in the
\* four tensors; an observation missing from the window contributes five zeros.
C1_SampleAndTargetShapes ==
    /\ WellShaped(samples, targets)
    /\ notification = "success" =>
          /\ WellShaped(trainingData.X_train, trainingData.y_train)
          /\ WellShaped(trainingData.X_test, trainingData.y_test)
    /\ \A k \in DOMAIN samples : \A r \in 1..7 : \A t \in 1..SelectedCount :
          MissingInWindow(k, r, t) =>
             \A f \in 1..5 : samples[k][r][5 * (t - 1) + f] = Zero

\* a successful load with a sample whose window lacks an observation
C1_Witness ==
    /\ notification = "success"
    /\ \E k \in DOMAIN samples : \E r \in 1..7 : \E t \in 1..SelectedCount :
          MissingInWindow(k, r, t)

\* the candidate indices (0-based) of the sorted date list
CandidateIndices == 7..(Len(SortedDates) - 4)

\* every selected track has a row at candidate i and at the 3 dates after it
TargetComplete(i) ==
    \A t \in 1..SelectedCount : \A o \in 0..3 :
        HasRow(TargetDate(i, o), dataLoader.selectedTracks[t])

\* C2: a candidate date is accepted if and only if every selected track has a
\* row at it and at each of the 3 following dates of the sorted date list,
\* whatever is missing from its 7-day window; a dropped candidate contributes
\* neither a sample nor a target.
C2_AcceptedIffTargetComplete ==
    /\ Len(samples) = Len(windowEnds)
    /\ Len(targets) = Len(windowEnds)
    /\ \A i \in CandidateIndices : Contains(windowEnds, i) <=> TargetComplete(i)

\* an accepted candidate with a hole in its window next to a dropped candidate
C2_Witness ==
    /\ \E k \in DOMAIN windowEnds : \E r \in 1..7 : \E t \in 1..SelectedCount :
          MissingInWindow(k, r, t)
    /\ \E i \in CandidateIndices : ~Contains(windowEnds, i) /\ ~TargetComplete(i)

\* every selected track has a row on every date of the list
AllObserved ==
    \A d \in dataLoader.dates : \A t \in 1..SelectedCount :
        HasRow(d, dataLoader.selectedTracks[t])

\* C3: the accepted candidates are indices 7 .. len-4 of the sorted date list,
\* in increasing order, all of them when every observation is present, each
\* with the 7 dates before it as its window; 11 dates with every observation
\* give exactly 1 sample, fewer than 11 dates none, and 11 dates with a
\* target-date observation missing none.
C3_CandidateRange ==
    /\ \A k \in DOMAIN windowEnds : windowEnds[k] \in CandidateIndices
    /\ \A k \in 1..(Len(windowEnds) - 1) : windowEnds[k] < windowEnds[k + 1]
    /\ AllObserved => Range(windowEnds) = CandidateIndices
    /\ \A k \in DOMAIN samples : \A r \in 1..7 : \A t \in 1..SelectedCount :
          ~MissingInWindow(k, r, t) =>
             samples[k][r][5 * (t - 1) + 1] =
                OrElse(RowAt(WindowDate(windowEnds[k], r),
                             dataLoader.selectedTracks[t]).streams_normalized, Zero)
    /\ Len(SortedDates) < 11 => samples = <<>>
    /\ Len(SortedDates) = 11 /\ AllObserved => Len(samples) = 1 /\ windowEnds = <<7>>
    /\ Len(SortedDates) = 11 /\ ~TargetComplete(7) => samples = <<>>

\* 11 dates, every observation present, one sample built
C3_Witness ==
    /\ Len(SortedDates) = 11
    /\ SelectedCount > 0
    /\ AllObserved
    /\ Len(samples) = 1

\* streams of the selected track t at candidate i (o = 0) or o dates later
StreamsAt(i, o, t) == RowAt(TargetDate(i, o), dataLoader.selectedTracks[t]).streams

\* C4: in every accepted target the entry of track t (0-based) and offset o at
\* position 3t + (o - 1) is 1 if the track's streams on the o-th date after
\* the candidate date are strictly greater than on the candidate date, and 0
\* otherwise.
C4_TargetIsStrictIncrease ==
    \A k \in DOMAIN targets : \A t \in 1..SelectedCount : \A o \in 1..3 :
        targets[k][3 * (t - 1) + o] =
            IF Greater(StreamsAt(windowEnds[k], o, t), StreamsAt(windowEnds[k], 0, t))
            THEN 1 ELSE 0

\* a target holding a 1, and a 0 that stands for equal streams
C4_Witness ==
    \E k \in DOMAIN targets : \E t \in 1..SelectedCount :
        /\ \E o \in 1..3 : targets[k][3 * (t - 1) + o] = 1
        /\ \E o \in 1..3 :
              /\ targets[k][3 * (t - 1) + o] = 0
              /\ StreamsAt(windowEnds[k], o, t) = StreamsAt(windowEnds[k], 0, t)

\* C8 as the specification states it: splitData puts the first floor(0.8 k)
\* of the k accepted (sample, target) pairs into the train tensors and the
\* rest into the test tensors, in order, so train followed by test is the
\* sequence the loop built.
C8_SplitKeepsSequence ==
    samples # <<>> =>
        /\ Len(dataLoader.X_train) = (4 * Len(samples)) \div 5
        /\ dataLoader.X_train \o dataLoader.X_test = samples
        /\ Len(dataLoader.y_train) = (4 * Len(targets)) \div 5
        /\ dataLoader.y_train \o dataLoader.y_test = targets

\* a load that built exactly one sample and left the tensors unset
C8_SingleSampleNotSplit ==
    /\ loads = 1
    /\ Len(samples) = 1
    /\ notification = "error"
    /\ dataLoader.X_train = NoTensor
    /\ dataLoader.X_test = NoTensor

\* the split of a load that succeeded: the first floor(0.8 k) pairs are the
\* train tensors, the rest the test tensors, and every train window ends
\* before every test window
C8_SplitOfSuccessfulLoad ==
    notification = "success" =>
        /\ Len(trainingData.X_train) = (4 * Len(samples)) \div 5
        /\ trainingData.X_train \o trainingData.X_test = samples
        /\ trainingData.y_train \o trainingData.y_test = targets
        /\ \A a \in 1..Len(trainingData.X_train) :
              \A b \in (Len(trainingData.X_train) + 1)..Len(samples) :
                  windowEnds[a] < windowEnds[b]

-----------------------------------------------------------------------------
(* minMaxNormalize applied to arguments of the shapes the program has:     *)
(* a number and either no parameters or {min, max} with min <= max         *)

NormValues == {Num(k) : k \in -1..MaxValue} \cup {Half, PosInf, Neg(PosInf)}

NormParams ==
    {[min |-> pr[1], max |-> pr[2]] :
        pr \in {q \in NormValues \X NormValues : ~Less(q[2], q[1])}}
    \cup {NoParams}

Idle ==
    /\ dataLoader = NewDataLoader
    /\ trainingData = NoData
    /\ notification = "none"
    /\ samples = <<>>
    /\ targets = <<>>
    /\ windowEnds = <<>>
    /\ loads = 0
    /\ result = <<>>
    /\ NewSession

InitNorm ==
    /\ Idle
    /\ \E value \in NormValues : \E params \in NormParams : args = <<value, params>>

\* result <- minMaxNormalize(value, params)
Normalize ==
    /\ result = <<>>
    /\ result' = <<minMaxNormalize(args[1], args[2])>>
    /\ UNCHANGED <<dataLoader, trainingData, notification, samples, targets, windowEnds,
                   loads, args, session>>

SpecNorm == InitNorm /\ [][Normalize]_vars

\* C6 as the specification states it: minMaxNormalize(v, {min, max}) is 0 for
\* v = min and 1 for v = max whenever max > min, and 0.5 for every v when
\* max = min or the parameters are absent.
C6_EndpointsAndDegenerate ==
    result # <<>> =>
        LET value == args[1]
            params == args[2]
        IN  /\ params # NoParams /\ Greater(params.max, params.min) /\ value = params.min
                => result[1] = Zero
            /\ params # NoParams /\ Greater(params.max, params.min) /\ value = params.max
                => result[1] = One
            /\ params = NoParams \/ params.max = params.min => result[1] = Half

\* C6 on finite parameters: the endpoints map to 0 and 1, and a degenerate or
\* absent range gives 0.5
C6_FiniteEndpoints ==
    result # <<>> =>
        LET value == args[1]
            params == args[2]
        IN  /\ params # NoParams /\ Greater(params.max, params.min)
               /\ IsFinite(params.min) /\ IsFinite(params.max)
                => /\ value = params.min => result[1] = Zero
                   /\ value = params.max => result[1] = One
            /\ params = NoParams \/ params.max = params.min => result[1] = Half

\* the maximum is Infinity and the value is the maximum
C6_InfiniteMaximum ==
    /\ result # <<>>
    /\ args[2] # NoParams
    /\ args[2].max = PosInf
    /\ IsFinite(args[2].min)
    /\ args[1] = PosInf
    /\ result[1] = NaN

-----------------------------------------------------------------------------
(* selectTopTracks applied to the rows parseCSV has read *)

\* tracks A, B, C and the stream counts of a row
SelectIds == {1, 2, 3}
SelectStreams == {50, 100, 200}

\* the entry of the k-th data line: track id and streams as given
SelectEntry(k, id, streams) ==
    ParseEntry(Row([date |-> k, track_id |-> id, streams |-> NumTok(Num(streams)),
                danceability |-> NumTok(Half), energy |-> NumTok(Half),
                    valence |-> NumTok(Half), acousticness |-> NumTok(Half)]),
               Indices(StdHeader))

SelectRows ==
    UNION { { Arr([k \in 1..len |-> SelectEntry(k, f[k][1], f[k][2])]) :
                f \in [1..len -> SelectIds \X SelectStreams] } : len \in 1..MaxRows }

\* the DataLoader when parseCSV reaches line 863
InitSelect ==
    /\ \E rows \in SelectRows :
          dataLoader = [NewDataLoader EXCEPT
                            !.data = rows,
                            !.tracks = {rows[k].track_id : k \in DOMAIN rows},
                            !.dates = {rows[k].date : k \in DOMAIN rows}]
    /\ trainingData = NoData
    /\ notification = "none"
    /\ samples = <<>>
    /\ targets = <<>>
    /\ windowEnds = <<>>
    /\ loads = 0
    /\ args = <<>>
    /\ result = <<>>
    /\ NewSession

\* this.selectTopTracks(n); args keeps n and the rows it was applied to
SelectTop(n) ==
    /\ args = <<>>
    /\ args' = <<n, dataLoader.data>>
    /\ dataLoader' = selectTopTracks(dataLoader, n)
    /\ UNCHANGED <<trainingData, notification, samples, targets, windowEnds, loads, result,
                   session>>

NextSelect == \E n \in 1..MaxN : SelectTop(n)

SpecSelect == InitSelect /\ [][NextSelect]_vars

\* the sum of the streams of the rows of a track
RECURSIVE TotalOf(_, _)
TotalOf(rows, id) ==
    IF rows = <<>> THEN 0
    ELSE (IF rows[1].track_id = id THEN rows[1].streams[1] ELSE 0) + TotalOf(Tail(rows), id)

\* the index of the first row of a track
FirstRow(rows, id) == SetMin({k \in DOMAIN rows : rows[k].track_id = id})

\* track a ranks before track b: larger total, or equal total and met earlier
RanksBefore(rows, a, b) ==
    \/ TotalOf(rows, a) > TotalOf(rows, b)
    \/ TotalOf(rows, a) = TotalOf(rows, b) /\ FirstRow(rows, a) < FirstRow(rows, b)

\* C7: selectTopTracks(n) sets selectedTracks to the n tracks of largest total
\* streams, by descending total, equal totals in the order the tracks are first
\* met, and keeps exactly the rows of those tracks; totals A:100, B:50, C:200
\* with n = 2 give [C, A].
C7_TopTracksByTotal ==
    args # <<>> =>
        LET n == args[1]
            rows == args[2]
            ids == {rows[k].track_id : k \in DOMAIN rows}
            selected == dataLoader.selectedTracks
            kept(entry) == Contains(selected, entry.track_id)
        IN  /\ Len(selected) = IF n < Cardinality(ids) THEN n ELSE Cardinality(ids)
            /\ Range(selected) \subseteq ids
            /\ \A i \in DOMAIN selected : \A j \in DOMAIN selected :
                  i < j => RanksBefore(rows, selected[i], selected[j])
            /\ \A a \in Range(selected) : \A b \in ids \ Range(selected) :
                  RanksBefore(rows, a, b)
            /\ dataLoader.data = SelectSeq(rows, kept)
            /\ (n = 2 /\ TotalOf(rows, 1) = 100 /\ TotalOf(rows, 2) = 50
                      /\ TotalOf(rows, 3) = 200) => selected = <<3, 1>>

\* the example, and a tie at the cut decided by the order of first occurrence
C7_Witness ==
    /\ args # <<>>
    /\ \/ /\ args[1] = 2
          /\ TotalOf(args[2], 1) = 100 /\ TotalOf(args[2], 2) = 50
          /\ TotalOf(args[2], 3) = 200
          /\ dataLoader.selectedTracks = <<3, 1>>
       \/ /\ args[1] = 1
          /\ TotalOf(args[2], 1) = TotalOf(args[2], 2)
          /\ args[2][1].track_id = 2
          /\ Len(args[2]) = 3
          /\ dataLoader.selectedTracks = <<2>>

-----------------------------------------------------------------------------
(* normalizeFeatures re-run on a loaded dataset with one later row appended *)

\* streams that rise (pattern 1) or fall (pattern 2) from date to date
FitLine(d, t, pattern) ==
    [ date |-> d, track_id |-> t,
      streams |-> NumTok(Num(IF pattern = 1 THEN 10 * d + t ELSE 100 - 10 * d - t)),
      danceability |-> NumTok(Norm(t, 4)), energy |-> NumTok(Norm(d % 3, 2)),
      valence |-> NumTok(Half), acousticness |-> NumTok(Half) ]

FitFiles ==
    { [empty |-> FALSE, headers |-> StdHeader,
       lines |-> Arr([i \in 1..(nd * nt) |->
                        Row(FitLine(((i - 1) \div nt) + 1, ((i - 1) % nt) + 1, pattern))])] :
        nd \in 2..MaxFitDates, nt \in 1..MaxTracks, pattern \in {1, 2} }

\* the DataLoader of a first load when createSlidingWindows has normalized it
InitFit ==
    /\ \E file \in FitFiles :
          dataLoader = normalizeFeatures(parseCSV(NewDataLoader, file).dl)
    /\ trainingData = NoData
    /\ notification = "none"
    /\ samples = <<>>
    /\ targets = <<>>
    /\ windowEnds = <<>>
    /\ loads = 1
    /\ args = <<>>
    /\ result = <<>>
    /\ NewSession

\* one row of a later date joins the rows and normalizeFeatures runs again;
\* args is the row, result the parameters and the number of dates before
AppendAndRefit(trackId, streams) ==
    /\ result = <<>>
    /\ LET date == Last(SortedSeq(dataLoader.dates)) + 1
           entry == ParseEntry(Row(FitLine(date, trackId, 1)), Indices(StdHeader))
           row == [entry EXCEPT !.streams = Num(streams)]
       IN  /\ args' = <<row>>
           /\ dataLoader' = normalizeFeatures(
                                [dataLoader EXCEPT !.data = Append(@, row),
                                                   !.tracks = @ \cup {trackId},
                                                   !.dates = @ \cup {date}])
    /\ result' = <<dataLoader.normalizationParams, Cardinality(dataLoader.dates)>>
    /\ UNCHANGED <<trainingData, notification, samples, targets, windowEnds, loads, session>>

NextFit == \E trackId \in 1..(MaxTracks + 1) : \E streams \in {0, 1000} :
              AppendAndRefit(trackId, streams)

SpecFit == InitFit /\ [][NextFit]_vars

\* the dates in the earliest floor(0.8 n) of the n dates of the DataLoader
EarliestDates ==
    {d \in dataLoader.dates :
        5 * Cardinality({e \in dataLoader.dates : e < d}) + 5
            <= 4 * Cardinality(dataLoader.dates)}

\* C5 as the specification states it: appending one row dated after every
\* existing date and re-running normalizeFeatures leaves the {min, max} of
\* every (track, feature) pair unchanged.
C5_AppendLeavesParams ==
    result # <<>> => dataLoader.normalizationParams = result[1]

\* C5, amended: the parameters are those of the rows dated in the earliest
\* floor(0.8 n) of the n distinct dates, and appending one row dated after
\* every existing date leaves them unchanged whenever floor(0.8 (n + 1)) =
\* floor(0.8 n).
C5_ParamsFromEarliestDates ==
    result # <<>> =>
        LET early(entry) == entry.date \in EarliestDates
        IN  /\ dataLoader.normalizationParams =
                    FitAll([dataLoader EXCEPT !.data = SelectSeq(dataLoader.data, early)])
            /\ (4 * (result[2] + 1)) \div 5 = (4 * result[2]) \div 5
                    => dataLoader.normalizationParams = result[1]

\* the cut stays where it was, and the appended row of a selected track lies
\* above the fitted maximum of its streams
C5_Witness ==
    /\ result # <<>>
    /\ (4 * (result[2] + 1)) \div 5 = (4 * result[2]) \div 5
    /\ HasParams(result[1], args[1].track_id)
    /\ Greater(args[1].streams, GetParams(result[1], args[1].track_id).streams.max)
    /\ dataLoader.normalizationParams = result[1]

-----------------------------------------------------------------------------
(* GRUModel: the accuracy analyses *)

\* x > 0.5 ? 1 : 0, where x is an element read from a row; an index outside
\* the row reads undefined, and undefined > 0.5 is false
Class(row, idx) == IF idx \in DOMAIN row /\ Greater(row[idx], Half) THEN 1 ELSE 0

\* seeded fault: the threshold is met by 0.5 itself
computeConsistentAccuracy_AtLeastHalf(predictions, y_true) ==
    LET rows == Len(y_true)
        cols == Len(y_true[1])
        atLeast(x) == IF Less(x, Half) THEN 0 ELSE 1
        correct == Cardinality({rc \in (1..rows) \X (1..cols) :
                        atLeast(predictions[rc[1]][rc[2]]) = atLeast(y_true[rc[1]][rc[2]])})
    IN  Mul(Div(Num(correct), Num(rows * cols)), Num(100))

\* computeConsistentAccuracy of src/gru.js: correct / (shape[0] * shape[1]) * 100
computeConsistentAccuracy(predictions, y_true) ==
    LET rows == Len(y_true)
        cols == Len(y_true[1])
        correct == Cardinality({rc \in (1..rows) \X (1..cols) :
                        Class(predictions[rc[1]], rc[2]) = Class(y_true[rc[1]], rc[2])})
    IN  Mul(Div(Num(correct), Num(rows * cols)), Num(100))

\* count / total * 100, or 0 when nothing was counted
Percent(count, total) ==
    IF total > 0 THEN Mul(Div(Num(count), Num(total)), Num(100)) ELSE Zero

\* computeTrackSpecificAccuracy: trackMetadata is the Map as the sequence of
\* its values in key order; trackIndex is 0-based as in the source
computeTrackSpecificAccuracy(predictions, y_true, trackMetadata) ==
    LET sampleIdxs == DOMAIN predictions
        match(trackIndex, sampleIdx, dayOffset) ==
            Class(predictions[sampleIdx], trackIndex * 3 + dayOffset + 1)
                = Class(y_true[sampleIdx], trackIndex * 3 + dayOffset + 1)
        trackDay(trackIndex, dayOffset) ==
            Cardinality({sampleIdx \in sampleIdxs : match(trackIndex, sampleIdx, dayOffset)})
        correct(trackIndex) ==
            trackDay(trackIndex, 0) + trackDay(trackIndex, 1) + trackDay(trackIndex, 2)
        RECURSIVE dayCorrect(_, _)
        dayCorrect(dayOffset, k) ==
            IF k = 0 THEN 0 ELSE trackDay(k - 1, dayOffset) + dayCorrect(dayOffset, k - 1)
        count == Len(predictions)
    IN  [ trackAccuracies |->
            Arr([k \in DOMAIN trackMetadata |->
                [ id |-> trackMetadata[k].id,
                  accuracy |-> Percent(correct(k - 1), 3 * count),
                  trackName |-> IF trackMetadata[k].name # 0 THEN trackMetadata[k].name
                                ELSE trackMetadata[k].id,
                  dayAccuracies |-> Arr([d \in 1..3 |-> Percent(trackDay(k - 1, d - 1), count)]) ]]),
          dayAccuracies |->
            Arr([d \in 1..3 |->
                Percent(dayCorrect(d - 1, Len(trackMetadata)), Len(trackMetadata) * count)]) ]

\* predictions in tenths from 0.3 to 0.7, targets 0 or 1, laid out by a
\* pattern over rows and columns
PredMatrix(rows, cols, a, b, c) ==
    Arr([r \in 1..rows |-> Arr([col \in 1..cols |->
            Norm(3 + ((a * r + b * col + c) % 5), 10)])])

TrueMatrix(rows, cols, p, q, m) ==
    Arr([r \in 1..rows |-> Arr([col \in 1..cols |-> Num((p * r + q * col + m) % 2)])])

ExamplePredictions == << <<Norm(6, 10), Norm(4, 10)>>, <<Norm(3, 10), Norm(7, 10)>> >>
ExampleTargets == << <<One, Zero>>, <<Zero, One>> >>

AccuracyInputs ==
    UNION { { <<PredMatrix(rows, cols, a, b, c), TrueMatrix(rows, cols, p, q, m)>> :
                a \in 0..2, b \in 0..2, c \in 0..4, p \in 0..1, q \in 0..1, m \in 0..1 } :
            rows \in 1..MaxSamples, cols \in 1..MaxColumns }
    \cup { <<ExamplePredictions, ExampleTargets>> }

InitAcc ==
    /\ Idle
    /\ \E input \in AccuracyInputs : args = input

\* computeConsistentAccuracy(predictions, y_true)
ConsistentAccuracy ==
    /\ result = <<>>
    /\ result' = <<"consistent", computeConsistentAccuracy(args[1], args[2])>>
    /\ UNCHANGED <<dataLoader, trainingData, notification, samples, targets, windowEnds,
                   loads, args, session>>

\* trackMetadata after loads that selected `stale` other tracks first and then
\* the n tracks of the targets: the keys of the earlier loads come first
MetadataOf(stale, n) ==
    Arr([k \in 1..(stale + n) |-> [id |-> k, name |-> k, totalStreams |-> Zero]])

\* computeTrackSpecificAccuracy(predictions, y_test, trackMetadata) on targets
\* of n tracks; result keeps the selected tracks and what the analysis returned
TrackAccuracy(stale) ==
    /\ result = <<>>
    /\ Len(args[2][1]) % 3 = 0
    /\ LET n == Len(args[2][1]) \div 3
       IN  result' = <<"track", Arr([k \in 1..n |-> stale + k]),
                       computeTrackSpecificAccuracy(args[1], args[2], MetadataOf(stale, n))>>
    /\ UNCHANGED <<dataLoader, trainingData, notification, samples, targets, windowEnds,
                   loads, args, session>>

NextAcc == ConsistentAccuracy \/ \E stale \in 0..MaxStale : TrackAccuracy(stale)

SpecAcc == InitAcc /\ [][NextAcc]_vars

\* the number of positions of the set at which prediction and target are on
\* the same side of 0.5 (0.5 itself on the lower side)
Agreements(positions) ==
    Cardinality({rc \in positions :
        (Less(Half, args[1][rc[1]][rc[2]])) <=> (Less(Half, args[2][rc[1]][rc[2]]))})

C10_PerTrackAndPerDay ==
    (result # <<>> /\ result[1] = "track") =>
        LET selected == result[2]
            out == result[3]
            count == Len(args[1])
            n == Len(selected)
        IN  /\ Len(out.trackAccuracies) = n
            /\ \A t \in 1..n :
                  /\ out.trackAccuracies[t].id = selected[t]
                  /\ out.trackAccuracies[t].accuracy =
                        Norm(100 * Agreements((1..count) \X ((3 * t - 2)..(3 * t))), 3 * count)
            /\ \A o \in 1..3 :
                  out.dayAccuracies[o] =
                        Norm(100 * Agreements((1..count) \X {3 * (t - 1) + o : t \in 1..n}),
                             n * count)

\* an analysis whose trackMetadata still holds a track of an earlier load
C10_StaleEntryReported ==
    /\ result # <<>>
    /\ result[1] = "track"
    /\ Len(result[3].trackAccuracies) > Len(result[2])

-----------------------------------------------------------------------------
(* The handlers of MusicPopularityApp in any order *)

\* a header without a date column
NoDateHeader == << {}, {"track"}, {"stream"}, {"danceability"}, {"energy"},
                  {"valence"}, {"acousticness"} >>

\* files the user uploads: two that load, one that yields a single sample,
\* one without a date column, a header alone, and the empty file
AppFiles ==
    { File(MaxDates, MaxTracks, 0, 1), File(MaxDates, 1, 0, 2),
      File(MinDates + 1, 1, 0, 1),
      [File(MinDates, 1, 0, 1) EXCEPT !.headers = NoDateHeader],
      HeaderOnly, EmptyFile }

NextApp ==
    \/ \E file \in AppFiles : handleFileUpload(file)
    \/ trainModel
    \/ fitSettled
    \/ evaluateModel

SpecApp == Init /\ [][NextApp]_vars

-----------------------------------------------------------------------------
(* MusicPopularityApp: breakout detection *)

\* seeded fault: the thresholds are inclusive
calculateRiskLevel_Inclusive(breakoutScore, confidence) ==
    IF ~Less(breakoutScore, Norm(1, 10)) /\ ~Less(confidence, Norm(7, 10)) THEN "low"
    ELSE IF ~Less(breakoutScore, Norm(5, 100)) /\ ~Less(confidence, Norm(6, 10)) THEN "medium"
    ELSE IF Greater(breakoutScore, Zero) THEN "high"
    ELSE "very-high"

\* calculateRiskLevel
calculateRiskLevel(breakoutScore, confidence) ==
    IF Greater(breakoutScore, Norm(1, 10)) /\ Greater(confidence, Norm(7, 10)) THEN "low"
    ELSE IF Greater(breakoutScore, Norm(5, 100)) /\ Greater(confidence, Norm(6, 10)) THEN "medium"
    ELSE IF Greater(breakoutScore, Zero) THEN "high"
    ELSE "very-high"

\* predData[sampleIdx][idx], idx 0-based
ProbAt(row, idx) == IF idx + 1 \in DOMAIN row THEN row[idx + 1] ELSE Undefined

\* seeded fault: the third day is not weighted
trendStrength_Unweighted(day1Prob, day2Prob, day3Prob) ==
    Add(Sub(day3Prob, day1Prob), Sub(day2Prob, day1Prob))

\* (day3Prob - day1Prob) * 2 + (day2Prob - day1Prob)
trendStrength(day1Prob, day2Prob, day3Prob) ==
    Add(Mul(Sub(day3Prob, day1Prob), Num(2)), Sub(day2Prob, day1Prob))

\* (day1Prob + day2Prob + day3Prob) / 3
overallConfidence(day1Prob, day2Prob, day3Prob) ==
    Div(Add(Add(day1Prob, day2Prob), day3Prob), Num(3))

\* (a, b) => b.breakoutScore - a.breakoutScore
BreakoutBefore(a, b) == Less(Sub(b.breakoutScore, a.breakoutScore), Zero)

\* detectBreakoutTracks: trackMetadata is the Map as the sequence of its
\* values in key order; trackIndex is 0-based as in the source
detectBreakoutTracks(predictions, trackMetadata) ==
    LET RECURSIVE breakoutScore(_, _)
        breakoutScore(trackIndex, n) ==
            IF n = 0 THEN Zero
            ELSE Add(breakoutScore(trackIndex, n - 1),
                     trendStrength(ProbAt(predictions[n], trackIndex * 3),
                                   ProbAt(predictions[n], trackIndex * 3 + 1),
                                   ProbAt(predictions[n], trackIndex * 3 + 2)))
        RECURSIVE confidence(_, _)
        confidence(trackIndex, n) ==
            IF n = 0 THEN Zero
            ELSE Add(confidence(trackIndex, n - 1),
                     overallConfidence(ProbAt(predictions[n], trackIndex * 3),
                                       ProbAt(predictions[n], trackIndex * 3 + 1),
                                       ProbAt(predictions[n], trackIndex * 3 + 2)))
        sampleCount == Len(predictions)
        avgBreakoutScore(trackIndex) ==
            Div(breakoutScore(trackIndex, sampleCount), Num(sampleCount))
        avgConfidence(trackIndex) ==
            Div(confidence(trackIndex, sampleCount), Num(sampleCount))
        breakoutScores ==
            Arr([k \in DOMAIN trackMetadata |->
                [ trackId |-> trackMetadata[k].id,
                  trackName |-> trackMetadata[k].name,
                  breakoutScore |-> Mul(avgBreakoutScore(k - 1), Num(100)),
                  confidence |-> Mul(avgConfidence(k - 1), Num(100)),
                  trend |-> IF Greater(avgBreakoutScore(k - 1), Zero) THEN "rising"
                            ELSE "stable",
                  riskLevel |-> calculateRiskLevel(avgBreakoutScore(k - 1),
                                                   avgConfidence(k - 1)) ]])
    IN  StableSort(breakoutScores, BreakoutBefore)

\* probabilities of a forecast day
Probs == {Zero, Norm(1, 5), Half, Norm(4, 5), One}

\* the three probabilities of a track in a sample
Triples == Probs \X Probs \X Probs

\* predictions for n tracks: the first track has the triple, the others the
\* triple reversed; later samples repeat the first (same = TRUE) or hold the
\* triple rotated
BreakoutMatrix(rows, n, triple, same) ==
    LET cell(r, t, d) ==
            IF t = 1 THEN (IF same \/ r = 1 THEN triple[d] ELSE triple[(d % 3) + 1])
            ELSE triple[4 - d]
    IN  Arr([r \in 1..rows |->
            Arr([col \in 1..(3 * n) |-> cell(r, ((col - 1) \div 3) + 1, ((col - 1) % 3) + 1)])])

\* average scores and confidences around the thresholds, and not-a-number
RiskScores == {Norm(-1, 10), Zero, Norm(1, 20), Norm(3, 40), Norm(1, 10), Norm(1, 5), NaN}
RiskConfidences == {Half, Norm(3, 5), Norm(13, 20), Norm(7, 10), Norm(4, 5), NaN}

InitBreakout ==
    /\ Idle
    /\ \/ \E rows \in 1..MaxSamples, n \in 1..MaxTracks, triple \in Triples, same \in BOOLEAN :
              args = <<"detect", BreakoutMatrix(rows, n, triple, same), MetadataOf(0, n)>>
       \/ \E score \in RiskScores, confidence \in RiskConfidences :
              args = <<"risk", score, confidence>>

\* result <- detectBreakoutTracks(predictions, trainingData)
DetectBreakout ==
    /\ result = <<>>
    /\ args[1] = "detect"
    /\ result' = <<detectBreakoutTracks(args[2], args[3])>>
    /\ UNCHANGED <<dataLoader, trainingData, notification, samples, targets, windowEnds,
                   loads, args, session>>

\* result <- calculateRiskLevel(breakoutScore, confidence)
ClassifyRisk ==
    /\ result = <<>>
    /\ args[1] = "risk"
    /\ result' = <<calculateRiskLevel(args[2], args[3])>>
    /\ UNCHANGED <<dataLoader, trainingData, notification, samples, targets, windowEnds,
                   loads, args, session>>

NextBreakout == DetectBreakout \/ ClassifyRisk

SpecBreakout == InitBreakout /\ [][NextBreakout]_vars

\* the triple (0.2, 0.5, 0.8) of the specification's example
ExampleTriple == <<Norm(1, 5), Half, Norm(4, 5)>>

\* track 1 has the example's probabilities in every sample
ExampleTrack ==
    /\ args[1] = "detect"
    /\ \A r \in DOMAIN args[2] : \A d \in 1..3 : args[2][r][d] = ExampleTriple[d]

\* the entry of track 1 in the result of detectBreakoutTracks
EntryOfFirst == result[1][CHOOSE k \in DOMAIN result[1] : result[1][k].trackId = 1]

\* C11 as the specification states it: a track whose forecast probabilities
\* are (0.2, 0.5, 0.8) in every sample gets score 1.5 (reported x 100),
\* confidence 0.5 (reported x 100) and riskLevel low.
C11_ExampleIsLowRisk ==
    (ExampleTrack /\ result # <<>>) =>
        /\ EntryOfFirst.breakoutScore = Num(150)
        /\ EntryOfFirst.confidence = Num(50)
        /\ EntryOfFirst.riskLevel = "low"

\* C11, amended: a track whose forecast probabilities are (0.2, 0.5, 0.8) in
\* every sample gets score 1.5 (reported x 100), confidence 0.5 (reported
\* x 100), trend rising and riskLevel high: confidence 0.5 is above neither
\* 0.70 nor 0.60.
C11_ExampleIsHighRisk ==
    (ExampleTrack /\ result # <<>>) =>
        /\ EntryOfFirst.breakoutScore = Num(150)
        /\ EntryOfFirst.confidence = Num(50)
        /\ EntryOfFirst.trend = "rising"
        /\ EntryOfFirst.riskLevel = "high"

\* the example evaluated over two samples and two tracks
C11_Witness ==
    /\ ExampleTrack
    /\ Len(args[2]) = 2
    /\ Len(args[3]) = 2
    /\ result # <<>>
    /\ EntryOfFirst.riskLevel = "high"

\* the level the ordered tests of the specification give to the averages
\* n1/d1 (score) and n2/d2 (confidence), written on the integers
LevelOf(score, confidence) ==
    LET above(x, n, d) == x[2] > 0 /\ x[1] * d > n * x[2]     \* x > n/d, x finite
    IN  IF above(score, 1, 10) /\ above(confidence, 7, 10) THEN "low"
        ELSE IF above(score, 5, 100) /\ above(confidence, 6, 10) THEN "medium"
        ELSE IF above(score, 0, 1) THEN "high"
        ELSE "very-high"

\* C12: calculateRiskLevel gives every (score, confidence) pair exactly the
\* level of the ordered tests low (score > 0.10 and confidence > 0.70),
\* medium (score > 0.05 and confidence > 0.60), high (score > 0), very-high;
\* in the entries of detectBreakoutTracks a non-positive score is very-high
\* and a rising track is never very-high.
C12_RiskLevelByOrderedTests ==
    /\ (result # <<>> /\ args[1] = "risk") =>
          /\ result[1] = LevelOf(args[2], args[3])
          /\ ~Greater(args[2], Zero) => result[1] = "very-high"
    /\ (result # <<>> /\ args[1] = "detect") =>
          \A k \in DOMAIN result[1] :
              /\ ~Greater(result[1][k].breakoutScore, Zero) => result[1][k].riskLevel = "very-high"
              /\ result[1][k].trend = "rising" => result[1][k].riskLevel # "very-high"
              /\ result[1][k].riskLevel =
                     LevelOf(Div(result[1][k].breakoutScore, Num(100)),
                             Div(result[1][k].confidence, Num(100)))

\* a score above 0.10 whose confidence is exactly 0.70 has been classified
C12_Witness ==
    /\ result # <<>>
    /\ args[1] = "risk"
    /\ args[2] = Norm(1, 5)
    /\ args[3] = Norm(7, 10)
    /\ result[1] = "medium"

-----------------------------------------------------------------------------
(* MusicPopularityApp: permutation feature importance *)

\* the features computeFeatureImportance names (app.js 341)
ImportanceFeatures ==
    << "Streams", "Danceability", "Energy", "Valence", "Acousticness", "Momentum",
       "Growth Rate", "Moving Avg", "Volatility" >>

\* GRUModel.evaluate: it throws when there is no network or when the network
\* rejects the shapes; otherwise it returns the object {loss, accuracy} of the
\* metrics the network computed
evaluate(m, X, y, metrics) ==
    IF NotBuilt(m) \/ ~Accepts(m, X, y) THEN [threw |-> TRUE, value |-> <<>>]
    ELSE [threw |-> FALSE,
          value |-> [kind |-> "object", loss |-> metrics.loss, accuracy |-> metrics.accuracy,
                     items |-> <<>>]]

\* value[i] of a JavaScript value: the element of an array, and undefined for
\* an object without a property of that name
PropertyAt(value, i) ==
    IF value.kind = "array" /\ i + 1 \in DOMAIN value.items THEN value.items[i + 1]
    ELSE Undefined

\* (a, b) => b.importance - a.importance
ImportanceBefore(a, b) == Less(Sub(b.importance, a.importance), Zero)

NoImportance == [null |-> TRUE, scores |-> <<>>]

\* computeFeatureImportance; metrics.baseline and metrics.shuffled[f] are what
\* the network computes on the test input and on the input with feature f
\* shuffled.  Reading .data() of undefined throws, and the catch returns null
computeFeatureImportance(data, m, metrics) ==
    IF ~data.present \/ data.X_test = NoTensor THEN NoImportance
    ELSE LET baselineResults == evaluate(m, data.X_test, data.y_test, metrics.baseline)
             shuffledResults(f) == evaluate(m, data.X_test, data.y_test, metrics.shuffled[f])
             importance(f) ==
                Sub(PropertyAt(baselineResults.value, 1), PropertyAt(shuffledResults(f).value, 1))
             importanceScores ==
                Arr([f \in DOMAIN ImportanceFeatures |->
                        [ feature |-> ImportanceFeatures[f],
                          importance |-> MathMax(<<Mul(importance(f), Num(100)), Zero>>) ]])
         IN  IF baselineResults.threw THEN NoImportance
             ELSE IF PropertyAt(baselineResults.value, 1) = Undefined THEN NoImportance
             ELSE IF \E f \in DOMAIN ImportanceFeatures :
                        \/ shuffledResults(f).threw
                        \/ PropertyAt(shuffledResults(f).value, 1) = Undefined
                  THEN NoImportance
             ELSE [null |-> FALSE, scores |-> StableSort(importanceScores, ImportanceBefore)]

\* accuracies the network may report
Accuracies == <<Zero, Half, Norm(3, 4), One>>

\* the metrics of the baseline and of the nine shuffled inputs, by a pattern
NetworkMetrics(base, a, b) ==
    [ baseline |-> [loss |-> Half, accuracy |-> Accuracies[base]],
      shuffled |-> Arr([f \in DOMAIN ImportanceFeatures |->
                        [loss |-> Half, accuracy |-> Accuracies[((a * f + b) % 4) + 1]]]) ]

\* files loaded before the importance is computed
ImportanceFiles == { File(MaxDates, 1, 0, 1), File(MaxDates, MaxTracks, 0, 1), EmptyFile }

\* the application after one load and, when the model is built, one train
\* request that has settled
InitImportance ==
    /\ \E file \in ImportanceFiles :
          \E parsed \in {parseCSV(NewDataLoader, file)} :
             IF ~parsed.ok
             THEN dataLoader = NewDataLoader /\ trainingData = NoData
             ELSE \E built \in {createSlidingWindows(parsed.dl)} :
                     /\ dataLoader = built.dl
                     /\ trainingData = IF built.ok /\ validateData(built.dl)
                                       THEN getTrainingData(built.dl) ELSE NoData
    /\ notification = "none"
    /\ samples = <<>>
    /\ targets = <<>>
    /\ windowEnds = <<>>
    /\ loads = 1
    /\ result = <<>>
    /\ isTraining = FALSE
    /\ model \in {NewGRUModel, [NewGRUModel EXCEPT !.built = TRUE]}
    /\ pending = <<>>
    /\ handler = "none"
    /\ events = <<>>
    /\ numTensors = 0
    /\ loadResults = <<>>
    /\ fitInvoked = model.built
    /\ \E base \in 1..4, a \in 0..3, b \in 0..3 : args = NetworkMetrics(base, a, b)

\* result <- computeFeatureImportance()
ComputeImportance ==
    /\ result = <<>>
    /\ result' = <<computeFeatureImportance(trainingData, model, args)>>
    /\ UNCHANGED <<dataLoader, trainingData, notification, samples, targets, windowEnds,
                   loads, args, session>>

SpecImportance == InitImportance /\ [][ComputeImportance]_vars

\* C13 as the specification states it: with a built model and test data
\* present, computeFeatureImportance returns one entry per feature whose
\* importance is max(baseline accuracy - shuffled accuracy, 0) x 100, in
\* descending order of importance.
C13_ImportancePerFeature ==
    (result # <<>> /\ model.built /\ trainingData.present) =>
        /\ ~result[1].null
        /\ Len(result[1].scores) = Len(ImportanceFeatures)
        /\ \A f \in DOMAIN ImportanceFeatures :
              \E k \in DOMAIN result[1].scores :
                 /\ result[1].scores[k].feature = ImportanceFeatures[f]
                 /\ LET diff == Sub(args.baseline.accuracy, args.shuffled[f].accuracy)
                    IN  result[1].scores[k].importance =
                            IF Less(diff, Zero) THEN Zero ELSE Mul(diff, Num(100))
        /\ \A k \in 1..(Len(result[1].scores) - 1) :
              ~Less(result[1].scores[k].importance, result[1].scores[k + 1].importance)

\* with a built model and test data present, computeFeatureImportance has
\* returned null
C13_ImportanceIsNull ==
    /\ result # <<>>
    /\ model.built
    /\ trainingData.present
    /\ trainingData.X_test # NoTensor
    /\ result[1].null

-----------------------------------------------------------------------------
(* Properties of the handlers *)

\* what the handler that ran last did
Did(event) == \E k \in DOMAIN events : events[k] = event

\* the displays of the evaluation summary and of the track / day analysis
SummaryDisplays ==
    { "display: evaluation results", "display: accuracy ranking",
      "display: hit potential", "display: day accuracy" }

\* computeFeatureImportance fails in the current state (its catch returns null)
ImportanceFails == computeFeatureImportance(trainingData, model, NetworkMetrics(1, 0, 0)).null

NoNaNInTensors ==
    \A tensor \in {dataLoader.X_train, dataLoader.X_test} :
        \A k \in DOMAIN tensor : \A d \in DOMAIN tensor[k] : \A c \in DOMAIN tensor[k][d] :
            ~IsNaN(tensor[k][d][c])

C16_PrerequisiteErrors ==
    /\ (handler = "trainModel" /\ \A k \in DOMAIN loadResults : loadResults[k] # "success") =>
          /\ events = <<TrainingError>>
          /\ notification = "error"
          /\ ~isTraining
          /\ ~fitInvoked
    /\ (handler = "evaluateModel" /\ (loadResults = <<>> \/ ~fitInvoked)) =>
          /\ events = <<EvaluationError>>
          /\ notification = "error"
          /\ ~isTraining

\* an evaluate request after a successful load and before any train request
\* has been answered with the one error
C16_Witness ==
    /\ handler = "evaluateModel"
    /\ loadResults = <<"success">>
    /\ ~fitInvoked
    /\ trainingData.present
    /\ events = <<EvaluationError>>
    /\ ~isTraining

\* a step that is a file load ending in the error notification
FailedLoad ==
    /\ loadResults' # loadResults
    /\ Last(loadResults') = "error"

\* C17 as the specification states it: a file load that fails shows one
\* error and retains nothing: the rows, the selected tracks, the track
\* metadata, the date set and the tensors of the DataLoader are what they
\* were before the attempt.
C17_FailedLoadRetainsNothing ==
    [][FailedLoad => (events' = <<LoadError>> /\ dataLoader' = dataLoader)]_vars

\* the first load has failed, and the DataLoader holds its rows, its
\* selected tracks, their metadata and its dates
C17_RowsOfFailedLoadKept ==
    /\ loadResults = <<"error">>
    /\ events = <<LoadError>>
    /\ dataLoader.data # <<>>
    /\ dataLoader.selectedTracks # <<>>
    /\ dataLoader.trackMetadata # <<>>
    /\ dataLoader.dates # {}
    /\ ~trainingData.present

-----------------------------------------------------------------------------
(* parseCSV applied to files whose lines have too few cells or empty keys *)

\* headers: the usual order, energy first (danceability last), date last,
\* and one without a date column
ParseHeaders ==
    { StdHeader,
      << {"energy"}, {"date"}, {"track"}, {"stream"}, {"danceability"} >>,
      << {"track"}, {"stream"}, {"danceability"}, {"energy"}, {"date"} >>,
      NoDateHeader }

\* the cell of a line under a header cell, for date key d and track key t
CellUnder(words, d, t) ==
    IF "date" \in words THEN KeyTok(d)
    ELSE IF "track" \in words THEN KeyTok(t)
    ELSE IF "stream" \in words THEN NumTok(Num(10))
    ELSE IF "danceability" \in words THEN NumTok(Half)
    ELSE IF "energy" \in words THEN NumTok(Norm(3, 4))
    ELSE JunkTok

\* the first len cells of the line for date key d and track key t
ShortLine(headers, d, t, len) ==
    Arr([k \in 1..(IF len < Len(headers) THEN len ELSE Len(headers)) |->
            CellUnder(headers[k], d, t)])

\* one line of any length with keys that may be empty, alone or followed by
\* a complete line of another date
InitParse ==
    /\ Idle
    /\ \E headers \in ParseHeaders, d \in 0..1, t \in 0..1, len \in 1..Len(StdHeader),
          more \in BOOLEAN :
          args = [ empty |-> FALSE, headers |-> headers,
                   lines |-> <<ShortLine(headers, d, t, len)>>
                             \o (IF more THEN <<ShortLine(headers, 2, 1, Len(headers))>>
                                 ELSE <<>>) ]

\* this.parseCSV(csvText) on a new DataLoader
ParseFile ==
    /\ result = <<>>
    /\ \E parsed \in {parseCSV(dataLoader, args)} :
          /\ dataLoader' = parsed.dl
          /\ result' = <<parsed.ok>>
    /\ UNCHANGED <<trainingData, notification, samples, targets, windowEnds, loads, args,
                   session>>

SpecParse == InitParse /\ [][ParseFile]_vars

\* the 1-based position of the column whose header includes the word, 0: none
ColumnOf(headers, word) ==
    IF \E k \in DOMAIN headers : word \in headers[k]
    THEN CHOOSE k \in DOMAIN headers :
            word \in headers[k] /\ \A j \in 1..(k - 1) : word \notin headers[j]
    ELSE 0

\* the line has a cell for each of the date, track, streams, danceability and
\* energy columns the header has
HoldsColumns(headers, values) ==
    \A word \in {"date", "track", "stream", "danceability", "energy"} :
        ColumnOf(headers, word) <= Len(values)

\* the key in the column of the word, 0 when the header has no such column
KeyIn(headers, values, word) ==
    IF ColumnOf(headers, word) \in DOMAIN values THEN values[ColumnOf(headers, word)].key
    ELSE 0

\* the lines the specification retains
ShouldRetain(headers, values) ==
    /\ HoldsColumns(headers, values)
    /\ KeyIn(headers, values, "date") # 0
    /\ KeyIn(headers, values, "track") # 0

\* C18 as the specification states it: parseCSV retains a line if and only
\* if the line has a cell for each of the date, track, streams, danceability
\* and energy columns of the header and its track_id and date are non-empty;
\* the rows, the dates and the tracks of the DataLoader are those of the
\* retained lines, in order.
C18_RetainedIffComplete ==
    result # <<>> =>
        LET keep(values) == ShouldRetain(args.headers, values)
            kept == SelectSeq(args.lines, keep)
        IN  /\ Len(dataLoader.data) = Len(kept)
            /\ \A k \in DOMAIN kept :
                  /\ k \in DOMAIN dataLoader.data
                  /\ dataLoader.data[k].date = KeyIn(args.headers, kept[k], "date")
                  /\ dataLoader.data[k].track_id = KeyIn(args.headers, kept[k], "track")
            /\ dataLoader.dates = {KeyIn(args.headers, kept[k], "date") : k \in DOMAIN kept}
            /\ dataLoader.tracks = {KeyIn(args.headers, kept[k], "track") : k \in DOMAIN kept}

\* a line of four cells under the usual header (no energy cell) has become a
\* row, with energy 0
C18_ShortLineRetained ==
    /\ result # <<>>
    /\ args.headers = StdHeader
    /\ Len(args.lines[1]) = 4
    /\ Len(dataLoader.data) = Len(args.lines)
    /\ dataLoader.data[1].energy = Zero
    /\ dataLoader.data[1].danceability = Half

-----------------------------------------------------------------------------
(* The tensors handed to the trainer and the network built for them *)

\* the widths of the tensors model.fit was called with
InputWidths(data) ==
    {Len(data.X_train[k][d]) : k \in DOMAIN data.X_train, d \in 1..windowSize}

TargetWidths(data) == {Len(data.y_train[k]) : k \in DOMAIN data.y_train}

\* C19 as the specification states it: the tensors handed to the trainer
\* have the widths its network is built for: the input's last dimension is
\* featuresPerTrack x N and is the network's input width, the target width
\* is 3 x N and is the width of the network's output layer.
C19_WidthsMatchNetwork ==
    \A k \in DOMAIN pending :
        /\ \A w \in InputWidths(pending[k]) : w = model.inputShape[2]
        /\ \A w \in TargetWidths(pending[k]) : w = outputUnits
        /\ \A wi \in InputWidths(pending[k]), wt \in TargetWidths(pending[k]) :
              \E N \in 1..TopN : wi = featuresPerTrack * N /\ wt = horizon * N

\* model.fit has been called with inputs of featuresPerTrack x N values and
\* targets of 3 x N values, and both differ from the widths of the network
C19_WidthsDiffer ==
    /\ pending # <<>>
    /\ model.built
    /\ \E N \in 1..TopN :
          /\ InputWidths(pending[1]) = {featuresPerTrack * N}
          /\ TargetWidths(pending[1]) = {horizon * N}
          /\ featuresPerTrack * N # model.inputShape[2]
          /\ horizon * N # outputUnits

-----------------------------------------------------------------------------
(* The dataset tensors across file loads *)

TensorsPerLoad == 4         \* splitData: X_train, y_train, X_test, y_test

\* C20 as the specification states it: across any sequence of file loads the
\* dataset tensors of the previous load are released before those of the new
\* load replace them, so at most one generation of dataset tensors (X_train,
\* y_train, X_test, y_test) is live at any time.
C20_OneGenerationLive == numTensors <= TensorsPerLoad

\* two loads have succeeded and the tensors of both are live
C20_TwoGenerationsLive ==
    /\ Len(loadResults) = 2
    /\ loadResults[1] = "success"
    /\ loadResults[2] = "success"
    /\ numTensors = 2 * TensorsPerLoad
    /\ dataLoader.X_train # NoTensor

-----------------------------------------------------------------------------
(* trackMetadata and the date set across file loads *)

\* Array.from(trackMetadata.keys())
MetadataKeys == Arr([k \in DOMAIN dataLoader.trackMetadata |-> dataLoader.trackMetadata[k].id])

\* C21 as the specification states it: after any sequence of file loads
\* trackMetadata contains exactly the currently selected tracks, in the
\* order of selectedTracks, so the track index the analyzer takes from the
\* key order of trackMetadata is the index of the track in selectedTracks.
C21_MetadataIsSelection == MetadataKeys = dataLoader.selectedTracks

\* two loads have succeeded and trackMetadata still has a key of the first
\* load that the second load did not select: the keys after it are shifted
\* against selectedTracks
C21_StaleKeyShiftsIndex ==
    /\ loadResults = <<"success", "success">>
    /\ \E k \in DOMAIN MetadataKeys : ~Contains(dataLoader.selectedTracks, MetadataKeys[k])
    /\ \E i \in DOMAIN dataLoader.selectedTracks :
          /\ i \in DOMAIN MetadataKeys
          /\ MetadataKeys[i] # dataLoader.selectedTracks[i]

\* the dates of the rows of the record store: parseCSV assigns data anew, so
\* these are the dates of the most recently parsed file
DatesOfData == {dataLoader.data[k].date : k \in DOMAIN dataLoader.data}

\* C22 as the specification states it: after any sequence of file loads the
\* date list that normalizeFeatures and createSlidingWindows sort contains
\* only dates that occur in the most recently loaded file.
C22_DatesOfLatestFileOnly == dataLoader.dates \subseteq DatesOfData

\* two loads have succeeded and the date set still holds a date of the first
\* file that the second file does not have; it is later than every date of
\* the second file, so it is among the future dates windowing looks at
C22_DateOfEarlierLoadKept ==
    /\ loadResults = <<"success", "success">>
    /\ \E d \in dataLoader.dates :
          /\ d \notin DatesOfData
          /\ \A e \in DatesOfData : e < d
          /\ Contains(SortedSeq(dataLoader.dates), d)

-----------------------------------------------------------------------------
(* The derived features of the rows *)

\* the rows of the track of row j that come before it when the rows of the
\* track are sorted ascending by date (rows of one date keep their order)
RowsBefore(j) ==
    {p \in DOMAIN dataLoader.data :
        /\ dataLoader.data[p].track_id = dataLoader.data[j].track_id
        /\ \/ dataLoader.data[p].date < dataLoader.data[j].date
           \/ dataLoader.data[p].date = dataLoader.data[j].date /\ p < j}

\* the row back places before row j in that order (back <= number of rows before)
RowBack(j, back) ==
    CHOOSE p \in RowsBefore(j) : Cardinality(RowsBefore(p)) = Cardinality(RowsBefore(j)) - back

StreamsOf(j) == dataLoader.data[j].streams

\* C23: after engineerFeatures every row of every selected track has a
\* momentum of its streams minus the streams of the previous row of the
\* track in date order (0 for the first row of the track), and a moving
\* average of the mean of its own and the two previous rows' streams (its
\* own streams for the first row, the mean of the first two rows for the
\* second row).
C23_MomentumAndMovingAverage ==
    \A j \in DOMAIN dataLoader.data :
        Contains(dataLoader.selectedTracks, dataLoader.data[j].track_id) =>
            LET before == Cardinality(RowsBefore(j))
            IN  /\ dataLoader.data[j].streams_momentum =
                      IF before = 0 THEN Zero
                      ELSE Sub(StreamsOf(j), StreamsOf(RowBack(j, 1)))
                /\ dataLoader.data[j].streams_ma3 =
                      IF before = 0 THEN StreamsOf(j)
                      ELSE IF before = 1
                      THEN Div(Add(StreamsOf(j), StreamsOf(RowBack(j, 1))), Num(2))
                      ELSE Div(Add(Add(StreamsOf(j), StreamsOf(RowBack(j, 1))),
                                   StreamsOf(RowBack(j, 2))), Num(3))

\* a file listed by descending date has been parsed: a row with two rows of
\* its track before it in date order, both later in the file, has a momentum
\* other than 0 and a moving average other than its own streams
C23_Witness ==
    \E j \in DOMAIN dataLoader.data :
        /\ Contains(dataLoader.selectedTracks, dataLoader.data[j].track_id)
        /\ Cardinality(RowsBefore(j)) >= 2
        /\ \A p \in RowsBefore(j) : p > j
        /\ dataLoader.data[j].streams_momentum \notin {Zero, Undefined}
        /\ dataLoader.data[j].streams_ma3 \notin {StreamsOf(j), Undefined}

-----------------------------------------------------------------------------
(* GRUModel.fit: the epoch loop, on tensors the network accepts *)

patience == 20              \* simplified fit
advancedPatience == 25      \* advanced fit
decayEvery == 30            \* advanced fit: epochs between two halvings of the learning rate
minDelta == Norm(1, 1000)   \* advanced fit: least improvement that counts
learningRate == Norm(1, 1000)

MaxEpochs == 32     \* largest epoch budget
FreeEpochs == 2     \* epochs whose validation loss is any of Losses
DropEpoch == 5      \* epoch of the late improvement of the tail "drop"

PatienceOf(variant) == IF variant = "simplified" THEN patience ELSE advancedPatience

\* validation losses the network reports in the first epochs
Losses == {NaN, One, Half}

\* validation loss of the later epochs: never a number, constant, falling
\* in every epoch, or constant with one late improvement
Tails == {"nan", "flat", "improving", "drop"}

TailLoss(kind, e) ==
    CASE kind = "nan" -> NaN
      [] kind = "flat" -> One
      [] kind = "improving" -> Norm(1, e + 2)
      [] OTHER -> IF e = DropEpoch THEN Norm(1, 10) ELSE One

\* history.history.val_loss[0] of the e-th single-epoch call of the network
NetworkLoss(e) == IF e <= FreeEpochs THEN Losses ELSE {TailLoss(args.tail, e)}

Budgets(variant) ==
    {1, PatienceOf(variant) - 1, PatienceOf(variant), PatienceOf(variant) + 1, MaxEpochs}

\* the GRUModel after an earlier fit of two epochs with the validation
\* losses 1 and 1/100
TrainedBefore ==
    [NewGRUModel EXCEPT !.built = TRUE, !.bestValLoss = Norm(1, 100), !.bestWeights = 2,
                        !.history = <<One, Norm(1, 100)>>, !.weights = 2]

\* a new GRUModel or one that has run before, and the arguments of fit
InitTrain ==
    /\ dataLoader = NewDataLoader
    /\ trainingData = NoData
    /\ notification = "none"
    /\ samples = <<>>
    /\ targets = <<>>
    /\ windowEnds = <<>>
    /\ loads = 0
    /\ result = <<>>
    /\ isTraining = FALSE
    /\ model \in {NewGRUModel, TrainedBefore}
    /\ pending = <<>>
    /\ handler = "none"
    /\ events = <<>>
    /\ numTensors = 0
    /\ loadResults = <<>>
    /\ fitInvoked = FALSE
    /\ \E variant \in {"simplified", "advanced"}, tail \in Tails :
          \E epochs \in Budgets(variant) :
             args = [variant |-> variant, epochs |-> epochs, tail |-> tail]

\* the activation of fit: its locals and where it stands
\*   "loop"      at the test of the for loop
\*   "trained"   the single-epoch call of the network has returned valLoss
\*   "returned"  fit has returned this.history
\*   "threw"     fit has rejected
Frame == pending[1]

\* fit up to the loop: builds the network when there is none and resets the
\* state of earlier runs
FitCall ==
    /\ pending = <<>>
    /\ result = <<>>
    /\ model' = [model EXCEPT !.built = TRUE, !.bestValLoss = PosInf,
                              !.bestWeights = NoWeights, !.history = <<>>]
    /\ pending' = << [pc |-> "loop", epoch |-> 0, patienceCounter |-> 0, valLoss |-> Undefined,
                      currentLearningRate |-> learningRate] >>
    /\ events' = <<>>
    /\ handler' = "fit"
    /\ UNCHANGED <<dataLoader, trainingData, notification, samples, targets, windowEnds,
                   loads, args, result, isTraining, numTensors, loadResults, fitInvoked>>

\* the advanced fit halves the learning rate and compiles the network anew
\* before the epochs 30, 60, ...
Decayed(frame) ==
    IF args.variant = "advanced" /\ frame.epoch > 0 /\ frame.epoch % decayEvery = 0
    THEN Mul(frame.currentLearningRate, Half)
    ELSE frame.currentLearningRate

\* one pass of the loop up to the return of await this.model.fit(...): the
\* network has trained one epoch and reports its validation loss
TrainEpoch ==
    /\ pending # <<>>
    /\ Frame.pc = "loop"
    /\ Frame.epoch < args.epochs
    /\ \E valLoss \in NetworkLoss(Frame.epoch + 1) :
          pending' = << [Frame EXCEPT !.pc = "trained", !.valLoss = valLoss,
                                     !.currentLearningRate = Decayed(Frame)] >>
    /\ model' = [model EXCEPT !.weights = Frame.epoch + 1]
    /\ events' = Append(events, [type |-> "network.fit", epoch |-> Frame.epoch + 1])
    /\ UNCHANGED <<dataLoader, trainingData, notification, samples, targets, windowEnds,
                   loads, args, result, isTraining, handler, numTensors, loadResults,
                   fitInvoked>>

\* valLoss < this.bestValLoss (simplified), valLoss < this.bestValLoss - 0.001
\* (advanced)
Improved(valLoss, bestValLoss) ==
    IF args.variant = "simplified" THEN Less(valLoss, bestValLoss)
    ELSE Less(valLoss, Sub(bestValLoss, minDelta))

\* seeded fault: the patience threshold is never reached
Exhausted_Never(patienceCounter) == FALSE

\* patienceCounter >= patience
Exhausted(patienceCounter) == patienceCounter >= PatienceOf(args.variant)

\* new CustomEvent('trainingProgress', ...)
TrainingProgress(epoch, patienceCounter) ==
    [type |-> "trainingProgress", epoch |-> epoch, earlyStopping |-> patienceCounter]

\* the rest of the pass: the history, the early-stopping test, the
\* notification.  setWeights(null) throws; the break leaves the loop and fit
\* returns the history
AfterEpoch ==
    /\ pending # <<>>
    /\ Frame.pc = "trained"
    /\ IF Improved(Frame.valLoss, model.bestValLoss)
       THEN /\ model' = [model EXCEPT !.history = Append(@, Frame.valLoss),
                                      !.bestValLoss = Frame.valLoss,
                                      !.bestWeights = model.weights]
            /\ pending' = << [Frame EXCEPT !.pc = "loop", !.patienceCounter = 0,
                                           !.epoch = @ + 1] >>
            /\ events' = Append(events, TrainingProgress(Frame.epoch + 1, 0))
            /\ UNCHANGED result
       ELSE IF Exhausted(Frame.patienceCounter + 1)
       THEN IF model.bestWeights = NoWeights
            THEN /\ model' = [model EXCEPT !.history = Append(@, Frame.valLoss)]
                 /\ pending' = << [Frame EXCEPT !.pc = "threw", !.patienceCounter = @ + 1] >>
                 /\ result' = <<"TypeError">>
                 /\ UNCHANGED events
            ELSE /\ model' = [model EXCEPT !.history = Append(@, Frame.valLoss),
                                           !.weights = model.bestWeights]
                 /\ pending' = << [Frame EXCEPT !.pc = "returned", !.patienceCounter = @ + 1] >>
                 /\ result' = <<"history">>
                 /\ UNCHANGED events
       ELSE /\ model' = [model EXCEPT !.history = Append(@, Frame.valLoss)]
            /\ pending' = << [Frame EXCEPT !.pc = "loop", !.patienceCounter = @ + 1,
                                           !.epoch = @ + 1] >>
            /\ events' = Append(events, TrainingProgress(Frame.epoch + 1,
                                                          Frame.patienceCounter + 1))
            /\ UNCHANGED result
    /\ UNCHANGED <<dataLoader, trainingData, notification, samples, targets, windowEnds,
                   loads, args, isTraining, handler, numTensors, loadResults, fitInvoked>>

\* the loop has run its budget: return this.history
FitReturn ==
    /\ pending # <<>>
    /\ Frame.pc = "loop"
    /\ Frame.epoch >= args.epochs
    /\ pending' = << [Frame EXCEPT !.pc = "returned"] >>
    /\ result' = <<"history">>
    /\ UNCHANGED <<dataLoader, trainingData, notification, samples, targets, windowEnds,
                   loads, args, model, isTraining, handler, events, numTensors, loadResults,
                   fitInvoked>>

NextTrain == FitCall \/ TrainEpoch \/ AfterEpoch \/ FitReturn

SpecTrain == InitTrain /\ [][NextTrain]_vars

\* every single-epoch call of the network returns and fit goes on after it
SpecTrainLive == SpecTrain /\ WF_vars(NextTrain)

\* the single-epoch calls of the network so far in this run
EpochsExecuted == Cardinality({k \in DOMAIN events : events[k].type = "network.fit"})

\* the epoch of the last strict improvement of the validation loss over
\* every number reported in an earlier epoch of the run, 0 when there is none
LastImprovement(history) ==
    LET better == {k \in DOMAIN history :
                      /\ Less(history[k], PosInf)
                      /\ \A j \in 1..(k - 1) :
                            IsNaN(history[j]) \/ Less(history[k], history[j])}
    IN  IF better = {} THEN 0 ELSE CHOOSE k \in better : \A j \in better : j <= k

\* fit has ended
Ended == pending # <<>> /\ Frame.pc \in {"returned", "threw"}

\* C24: GRUModel.fit always terminates when every single-epoch call of the
\* network returns; it executes at most `epochs` epochs; it ends before the
\* budget exactly at the first epoch at which the count of consecutive
\* epochs without improvement of the validation loss reaches the patience;
\* a run that does not fail ends in no other way.
C24_FitTerminates ==
    /\ <>(result # <<>>)
    /\ [](EpochsExecuted <= args.epochs)
    /\ [](pending # <<>> =>
            /\ Frame.patienceCounter <= PatienceOf(args.variant)
            /\ Frame.patienceCounter = PatienceOf(args.variant) => Ended
            /\ (Ended /\ EpochsExecuted < args.epochs) =>
                    Frame.patienceCounter = PatienceOf(args.variant)
            /\ (Ended /\ Frame.patienceCounter < PatienceOf(args.variant)) =>
                    (EpochsExecuted = args.epochs /\ result = <<"history">>)
            /\ (args.variant = "simplified" /\ Frame.pc # "trained") =>
                    Frame.patienceCounter =
                        Len(model.history) - LastImprovement(model.history))

\* a run has stopped early, before its budget, with the counter at the
\* patience, and has returned the history
C24_Witness ==
    /\ Ended
    /\ result = <<"history">>
    /\ EpochsExecuted < args.epochs
    /\ Frame.patienceCounter = PatienceOf(args.variant)
    /\ Len(model.history) = EpochsExecuted

\* the trainingProgress notifications dispatched so far in this run
Dispatched ==
    LET isProgress(e) == e.type = "trainingProgress"
    IN  SelectSeq(events, isProgress)

\* the place in events of the single-epoch call for the epoch
TrainedAt(epoch) ==
    CHOOSE k \in DOMAIN events : events[k] = [type |-> "network.fit", epoch |-> epoch]

\* C25 as the specification states it: fit dispatches exactly one
\* trainingProgress notification for every epoch it executes, after the
\* training of that epoch, in increasing epoch order, each with the epoch
\* number and the early-stopping counter, also for the epoch at which early
\* stopping triggers.
C25_OneProgressPerEpoch ==
    (pending # <<>> /\ Frame.pc # "trained") =>
        /\ Len(Dispatched) = EpochsExecuted
        /\ \A k \in DOMAIN Dispatched :
              /\ Dispatched[k].epoch = k
              /\ \E at \in DOMAIN events : events[at] = Dispatched[k] /\ TrainedAt(k) < at
        /\ (Len(Dispatched) > 0 /\ Frame.pc # "threw") =>
              Dispatched[Len(Dispatched)].earlyStopping = Frame.patienceCounter

\* early stopping has triggered and fit has returned: the last epoch was
\* trained, every epoch before it was notified with its counter, and no
\* notification was dispatched for the last one
C25_StoppingEpochNotNotified ==
    /\ Ended
    /\ result = <<"history">>
    /\ Frame.patienceCounter = PatienceOf(args.variant)
    /\ Len(Dispatched) = EpochsExecuted - 1
    /\ \A k \in DOMAIN Dispatched :
          Dispatched[k].epoch = k /\ Dispatched[k].earlyStopping < PatienceOf(args.variant)
    /\ events[Len(events)] = [type |-> "network.fit", epoch |-> EpochsExecuted]

-----------------------------------------------------------------------------
(* Train requests while a training run is in progress *)

\* C26: at most one training run is in progress at any time.  A train
\* request made while isTraining is true shows the warning and neither calls
\* model.fit nor changes the state; isTraining is false again when a train
\* request has finished, whether it succeeded, failed or was rejected for
\* missing data; file loads and evaluations are not blocked while a
\* training run is in progress.
C26_OneTrainingAtATime ==
    /\ [](Len(pending) <= 1 /\ (isTraining <=> pending # <<>>))
    /\ [][(handler' = "trainModel" /\ isTraining) =>
            /\ events' = <<TrainingWarning>>
            /\ UNCHANGED <<dataLoader, trainingData, isTraining, model, pending, fitInvoked,
                           numTensors, loadResults>>]_vars
    /\ [][(handler' = "trainModel" /\ ~isTraining /\ events' # <<"model.fit">>) =>
            (events' = <<TrainingError>> /\ ~isTraining' /\ pending' = <<>>)]_vars
    /\ [][handler' = "trainModel: fit settled" =>
            (~isTraining' /\ events'[Len(events')] \in {TrainingSuccess, TrainingError})]_vars
    /\ [](isTraining =>
            /\ ENABLED evaluateModel
            /\ loads < MaxLoads => ENABLED handleFileUpload(HeaderOnly))

\* a train request was made while a run was in progress: the warning is
\* shown, the run is still awaited
C26_Witness ==
    /\ handler = "trainModel"
    /\ events = <<TrainingWarning>>
    /\ isTraining
    /\ pending # <<>>
    /\ fitInvoked

-----------------------------------------------------------------------------
(* The best validation loss and the best weights of a run *)

\* the least number among the validation losses of the run so far (NaN is
\* not a number), Infinity when there is none
MinObserved(history) ==
    LET numbers == {k \in DOMAIN history : ~IsNaN(history[k])}
    IN  IF numbers = {} THEN PosInf
        ELSE history[CHOOSE k \in numbers : \A j \in numbers : ~Less(history[j], history[k])]

\* C27 as the specification states it: in the simplified fit bestValLoss is
\* at every point of a run the minimum validation loss observed so far in
\* that run, and whenever early stopping triggers best weights have been
\* recorded (bestWeights is not null), so the restore is well defined.
C27_BestLossAndWeights ==
    (pending # <<>> /\ args.variant = "simplified" /\ Frame.pc # "trained") =>
        /\ model.bestValLoss = MinObserved(model.history)
        /\ Frame.patienceCounter >= patience => model.bestWeights # NoWeights

\* the validation loss was never a number below Infinity: after 20 epochs the
\* counter reaches the patience with bestWeights still null, setWeights(null)
\* throws and fit rejects
C27_RestoreWithoutWeights ==
    /\ Ended
    /\ args.variant = "simplified"
    /\ Frame.pc = "threw"
    /\ result = <<"TypeError">>
    /\ Frame.patienceCounter = patience
    /\ Len(model.history) = patience
    /\ model.bestWeights = NoWeights
    /\ model.bestValLoss = PosInf

-----------------------------------------------------------------------------
(* The three accuracy views of one prediction/target pair *)

\* the unweighted mean of a sequence of at most three numbers
Mean(values) ==
    Div(IF Len(values) = 1 THEN values[1]
        ELSE IF Len(values) = 2 THEN Add(values[1], values[2])
        ELSE Add(Add(values[1], values[2]), values[3]),
        Num(Len(values)))

\* MaxColumns allows at most this many tracks of three columns
MeanOfTracks(out) ==
    Mean(Arr([k \in DOMAIN out.trackAccuracies |-> out.trackAccuracies[k].accuracy]))

\* C28: when trackMetadata holds exactly the selected tracks, the consistent
\* accuracy of a prediction/target pair equals the unweighted mean of the
\* per-track accuracies and the unweighted mean of the three day
\* accuracies, and the accuracy of every track equals the mean of its own
\* three per-day accuracies (in exact arithmetic).
C28_AccuracyViewsAgree ==
    (result # <<>> /\ result[1] = "track" /\ result[2][1] = 1) =>
        LET out == result[3]
            consistent == computeConsistentAccuracy(args[1], args[2])
        IN  /\ Len(out.trackAccuracies) * 3 = Len(args[2][1])
            /\ consistent = MeanOfTracks(out)
            /\ consistent = Mean(out.dayAccuracies)
            /\ \A k \in DOMAIN out.trackAccuracies :
                  out.trackAccuracies[k].accuracy = Mean(out.trackAccuracies[k].dayAccuracies)

\* two tracks over two samples with different accuracies, neither view 0 or
\* 100, and a track whose three day accuracies differ
C28_Witness ==
    /\ result # <<>>
    /\ result[1] = "track"
    /\ result[2] = <<1, 2>>
    /\ Len(args[1]) = MaxSamples
    /\ result[3].trackAccuracies[1].accuracy # result[3].trackAccuracies[2].accuracy
    /\ MeanOfTracks(result[3]) \notin {Zero, Num(100)}
    /\ result[3].dayAccuracies[1] # result[3].dayAccuracies[2]
    /\ result[3].trackAccuracies[1].dayAccuracies[1] #
            result[3].trackAccuracies[1].dayAccuracies[3]

-----------------------------------------------------------------------------
(* shuffleFeature *)

shuffleTracks == 10         \* shuffleFeature: for (track = 0; track < 10; ...)
strideSimplified == 5       \* part_000: track * 5 + featureIndex
strideAdvanced == 9         \* app.js: track * 9 + featureIndex

MaxShuffleSamples == 2      \* most samples, and most days, of the tensor shuffled
MaxSeed == 2                \* the sequences of random numbers tried

StrideOf(variant) == IF variant = "part_000" THEN strideSimplified ELSE strideAdvanced

\* the feature indices computeFeatureImportance hands over: 0..4 in part_000,
\* 0..8 in app.js; the first and the last, and the last of the 5 features
FeatureIndices(variant) ==
    IF variant = "part_000" THEN {0, strideSimplified - 1}
    ELSE {0, strideSimplified - 1, strideAdvanced - 1}

\* a tensor of the given shape with a different value at every position
ShuffleTensor(count, days, width) ==
    Arr([sm \in 1..count |-> Arr([d \in 1..days |-> Arr([c \in 1..width |->
            Num((((sm - 1) * days + (d - 1)) * width) + c)])])])

\* X_test of 1, 2 or 10 selected tracks
InitShuffle ==
    /\ Idle
    /\ \E variant \in {"part_000", "app.js"}, n \in {1, MaxTracks, TopN},
          size \in 1..MaxShuffleSamples, seed \in 0..MaxSeed :
       \E featureIndex \in FeatureIndices(variant) :
          args = [ variant |-> variant, featureIndex |-> featureIndex, seed |-> seed,
                   X |-> ShuffleTensor(size, size, featuresPerTrack * n) ]

\* Math.floor(Math.random() * n) in the i-th pass of the inner loop
RandomSample(i, n) == (args.seed + i) % n
RandomDay(i, n) == (args.seed + (i \div 2)) % n
RandomTrack(i) == (3 * args.seed + 7 * i) % shuffleTracks

\* row[pos] of a JavaScript array, pos counted from 0
ReadAt(row, pos) == IF pos + 1 \in DOMAIN row THEN row[pos + 1] ELSE Undefined

\* row[pos] = value: an index past the end lengthens the array, the skipped
\* indices read undefined
WriteAt(row, pos, value) ==
    Arr([c \in 1..(IF pos + 1 > Len(row) THEN pos + 1 ELSE Len(row)) |->
            IF c = pos + 1 THEN value ELSE ReadAt(row, c - 1)])

\* data[sample][day][pos] = value
WriteCell(data, sample, day, pos, value) ==
    [data EXCEPT ![sample + 1][day + 1] = WriteAt(@, pos, value)]

\* const data = await X.array(): a copy of the values
ShuffleCall ==
    /\ pending = <<>>
    /\ result = <<>>
    /\ pending' = << [data |-> args.X, sample |-> 0, day |-> 0, track |-> 0] >>
    /\ handler' = "shuffleFeature"
    /\ UNCHANGED <<dataLoader, trainingData, notification, samples, targets, windowEnds,
                   loads, args, result, isTraining, model, events, numTensors, loadResults,
                   fitInvoked>>

\* one pass of the innermost loop: the swap of data[sample][day][featurePos]
\* with a random cell, then the loop counters
ShuffleStep ==
    /\ pending # <<>>
    /\ Frame.sample < Len(Frame.data)
    /\ LET data == Frame.data
           days == Len(data[Frame.sample + 1])
           i == (Frame.sample * days + Frame.day) * shuffleTracks + Frame.track
           featurePos == Frame.track * StrideOf(args.variant) + args.featureIndex
           randomSample == RandomSample(i, Len(data))
           randomDay == RandomDay(i, Len(data[randomSample + 1]))
           randomPos == RandomTrack(i) * StrideOf(args.variant) + args.featureIndex
           temp == ReadAt(data[Frame.sample + 1][Frame.day + 1], featurePos)
           lastTrack == Frame.track + 1 = shuffleTracks
           lastDay == Frame.day + 1 = days
       IN  \E first \in {WriteCell(data, Frame.sample, Frame.day, featurePos,
                                    ReadAt(data[randomSample + 1][randomDay + 1], randomPos))} :
              pending' = << [ data |-> WriteCell(first, randomSample, randomDay, randomPos, temp),
                              track |-> IF lastTrack THEN 0 ELSE Frame.track + 1,
                              day |-> IF ~lastTrack THEN Frame.day
                                      ELSE IF lastDay THEN 0 ELSE Frame.day + 1,
                              sample |-> IF lastTrack /\ lastDay THEN Frame.sample + 1
                                         ELSE Frame.sample ] >>
    /\ UNCHANGED <<dataLoader, trainingData, notification, samples, targets, windowEnds,
                   loads, args, result, isTraining, model, handler, events, numTensors,
                   loadResults, fitInvoked>>

\* the rows of a nested array differ in length: tf.tensor3d finds fewer or
\* more values than the shape it inferred from the first row and throws
Ragged(data) ==
    \E sm \in DOMAIN data : \E d \in DOMAIN data[sm] : Len(data[sm][d]) # Len(data[1][1])

\* return tf.tensor3d(data)
ShuffleReturn ==
    /\ pending # <<>>
    /\ result = <<>>
    /\ Frame.sample >= Len(Frame.data)
    /\ result' = IF Ragged(Frame.data) THEN <<"throws">> ELSE <<"tensor", Frame.data>>
    /\ UNCHANGED <<dataLoader, trainingData, notification, samples, targets, windowEnds,
                   loads, args, session>>

NextShuffle == ShuffleCall \/ ShuffleStep \/ ShuffleReturn

SpecShuffle == InitShuffle /\ [][NextShuffle]_vars

\* the positions of a day row that hold feature f of some track
FeaturePositions(width, f) == {c \in 1..width : (c - 1) % featuresPerTrack = f}

\* the values of a tensor at the positions of a set, as a bag: value |-> count
ValuesAt(tensor, positions) ==
    LET cells == {<<sm, d, c>> \in (DOMAIN tensor) \X (DOMAIN tensor[1]) \X positions : TRUE}
        values == {tensor[cell[1]][cell[2]][cell[3]] : cell \in cells}
    IN  [v \in values |-> Cardinality({cell \in cells :
                                          tensor[cell[1]][cell[2]][cell[3]] = v})]

\* C29 as the specification states it: shuffleFeature(X, f) returns a new
\* tensor of the shape of X in which only the positions that hold feature f
\* of some track differ from X, the values at those positions are those of X
\* at those positions, swapped among them, every position of every other
\* feature is as in X, no index outside the width of the day rows is read or
\* written, and X is not modified.
C29_ShufflesOneFeatureOnly ==
    /\ \A k \in DOMAIN pending :
          \A sm \in DOMAIN pending[k].data : \A d \in DOMAIN pending[k].data[sm] :
             Len(pending[k].data[sm][d]) = Len(args.X[1][1])
    /\ (result # <<>> /\ handler = "shuffleFeature") =>
          /\ result[1] = "tensor"
          /\ LET width == Len(args.X[1][1])
                 hold == FeaturePositions(width, args.featureIndex)
             IN  /\ DOMAIN result[2] = DOMAIN args.X
                 /\ \A sm \in DOMAIN args.X :
                       /\ DOMAIN result[2][sm] = DOMAIN args.X[sm]
                       /\ \A d \in DOMAIN args.X[sm] :
                             /\ DOMAIN result[2][sm][d] = 1..width
                             /\ \A c \in (1..width) \ hold :
                                   result[2][sm][d][c] = args.X[sm][d][c]
                 /\ ValuesAt(result[2], hold) = ValuesAt(args.X, hold)

\* shuffleFeature of part_000 has returned for a tensor of two tracks (rows
\* of 10 values): the rows of the result are longer than those of X, a
\* position inside the width now reads undefined, and a value of X sits
\* outside the width
C29_RowsOutgrown ==
    /\ result # <<>>
    /\ handler = "shuffleFeature"
    /\ args.variant = "part_000"
    /\ args.featureIndex = 0
    /\ Len(args.X[1][1]) = featuresPerTrack * MaxTracks
    /\ result[1] = "tensor"
    /\ Len(result[2][1][1]) > Len(args.X[1][1])
    /\ \E c \in 1..Len(args.X[1][1]) : result[2][1][1][c] = Undefined
    /\ \E sm \in DOMAIN result[2] : \E d \in DOMAIN result[2][sm] :
          \E c \in (Len(args.X[1][1]) + 1)..Len(result[2][sm][d]) :
             result[2][sm][d][c] # Undefined

-----------------------------------------------------------------------------
(* The partitions of a load that yields samples *)

\* C30 as the specification states it: whenever createSlidingWindows accepts
\* at least one sample, splitData produces a non-empty train set and a
\* non-empty test set out of the accepted samples.
C30_PartitionsNeverEmpty ==
    Len(samples) >= 1 =>
        /\ dataLoader.X_train # NoTensor
        /\ dataLoader.X_test # NoTensor
        /\ Len(dataLoader.X_train) >= 1
        /\ Len(dataLoader.X_test) >= 1
        /\ Len(dataLoader.X_train) + Len(dataLoader.X_test) = Len(samples)

\* the first load accepted exactly one sample: the train slice is empty,
\* tf.tensor3d([]) throws, no tensor is made and the load is reported as failed
C30_SingleSampleHasNoTrainSet ==
    /\ loadResults = <<"error">>
    /\ Len(samples) = 1
    /\ SplitIndex(Len(samples)) = 0
    /\ numTensors = 0
    /\ dataLoader.X_train = NoTensor
    /\ trainingData = NoData

====
